---- MODULE Spec2Model ----
(***************************************************************************)
(* Model of the optimization core of vsf-infrastructure:                   *)
(*   src/optimization/router.py      ProbeRouter                           *)
(*   src/optimization/aggregator.py  MetricsAggregator                     *)
(*   src/optimization/controller.py  OptimizationController                *)
(* The program is single-threaded cooperative (asyncio): a step of the     *)
(* model is the code a coroutine runs between two suspension points        *)
(* (a network POST, an asyncio.sleep).                                     *)
(***************************************************************************)
EXTENDS Integers, Sequences, FiniteSets, TLC

VARIABLES
    probes,         \* ProbeRouter.probes: insertion-ordered dict, as a sequence of ProbeInfo
    routing_table,  \* ProbeRouter.routing_table: alias -> probe_id
    calls,          \* the call_tool coroutines, by slot
    now,            \* the wall clock (datetime.now / time.time), in seconds
    policies,       \* OptimizationController.policies
    history,        \* OptimizationController.history
    cycle_count,    \* OptimizationController._cycle_count
    cache,          \* MetricsAggregator._cache / _cache_time
    run,            \* the run_optimization_cycle coroutine
    tasks           \* the callers of collect_all, collect_node_metrics and broadcast

vars ==
    <<probes, routing_table, calls, now, policies, history, cycle_count, cache, run, tasks>>

routerVars == <<probes, routing_table>>
ctlVars == <<policies, history, cycle_count, cache, run>>

-----------------------------------------------------------------------------
(* Bounds *)

MaxTime == 3        \* the clock stops ticking here
MaxPolicies == 2    \* policies added to the controller
MaxCycles == 1      \* cycles run
MaxElapse == 1      \* the clock jumps while it is below MaxElapse * cache_ttl

(* Program constants *)

max_retries == 3
timeout == 30
StaleTimeout == 300
cache_ttl == 30

-----------------------------------------------------------------------------
(* Optional values: None is the empty tuple, Some(v) the one-tuple *)

None == <<>>
Some(v) == <<v>>
IsNone(o) == Len(o) = 0
IsSome(o) == Len(o) = 1

Max(a, b) == IF a >= b THEN a ELSE b

-----------------------------------------------------------------------------
(* ProbeType, ProbeInfo *)

K8S == "k8s"
VM_SYSTEM == "vm_system"
HOST_SYSTEM == "host_system"
ProbeType == {K8S, VM_SYSTEM, HOST_SYSTEM}

ProbeInfo(probe_id, probe_type, endpoint, hostname) ==
    [probe_id |-> probe_id, probe_type |-> probe_type, endpoint |-> endpoint,
     hostname |-> hostname, healthy |-> TRUE, last_heartbeat |-> now]

is_stale(p, timeout_seconds) == (now - p.last_heartbeat) > timeout_seconds

(* the dict self.probes, kept in insertion order *)
Keys(ps) == {ps[i].probe_id : i \in 1..Len(ps)}
Lookup(ps, id) == ps[CHOOSE i \in 1..Len(ps) : ps[i].probe_id = id]
DictSet(ps, id, rec) ==
    IF id \in Keys(ps)
    THEN [i \in 1..Len(ps) |-> IF ps[i].probe_id = id THEN rec ELSE ps[i]]
    ELSE Append(ps, rec)
DictPop(ps, id) == SelectSeq(ps, LAMBDA p : p.probe_id # id)

-----------------------------------------------------------------------------
(* ProbeRouter: registry *)

\* get_probe without the routing table
get_probe_IdOnly(target) ==
    IF target \in Keys(probes) THEN Some(Lookup(probes, target)) ELSE None

\* get_probe with the routing table consulted first
get_probe_AliasFirst(target) ==
    IF target \in DOMAIN routing_table /\ routing_table[target] \in Keys(probes)
    THEN Some(Lookup(probes, routing_table[target]))
    ELSE IF target \in Keys(probes) THEN Some(Lookup(probes, target)) ELSE None

get_probe(target) ==
    IF target \in Keys(probes) THEN Some(Lookup(probes, target))
    ELSE IF target \in DOMAIN routing_table
         THEN IF routing_table[target] \in Keys(probes)
              THEN Some(Lookup(probes, routing_table[target]))
              ELSE None
         ELSE None

list_probes(probe_type, healthy_only) ==
    LET byType == IF IsSome(probe_type)
                  THEN SelectSeq(probes, LAMBDA p : p.probe_type = probe_type[1])
                  ELSE probes
    IN IF healthy_only
       THEN SelectSeq(byType, LAMBDA p : p.healthy /\ ~is_stale(p, StaleTimeout))
       ELSE byType

WithHealth(ps, probe_id, healthy) ==
    IF probe_id \in Keys(ps)
    THEN DictSet(ps, probe_id,
                 [Lookup(ps, probe_id) EXCEPT !.healthy = healthy, !.last_heartbeat = now])
    ELSE ps

register_probe(probe_id, probe_type, endpoint, hostname) ==
    /\ probes' = DictSet(probes, probe_id, ProbeInfo(probe_id, probe_type, endpoint, hostname))
    /\ routing_table' = (hostname :> probe_id) @@ routing_table
    /\ UNCHANGED <<calls, now, ctlVars, tasks>>

\* unregister_probe without lines 122-126
unregister_probe_KeepAliases(probe_id) ==
    /\ probes' = DictPop(probes, probe_id)
    /\ UNCHANGED <<routing_table, calls, now, ctlVars, tasks>>

unregister_probe(probe_id) ==
    /\ IF probe_id \in Keys(probes)
       THEN /\ probes' = DictPop(probes, probe_id)
            /\ routing_table' = [k \in {a \in DOMAIN routing_table : routing_table[a] # probe_id}
                                    |-> routing_table[k]]
       ELSE UNCHANGED <<probes, routing_table>>
    /\ UNCHANGED <<calls, now, ctlVars, tasks>>

update_health(probe_id, healthy) ==
    /\ probes' = WithHealth(probes, probe_id, healthy)
    /\ UNCHANGED <<routing_table, calls, now, ctlVars, tasks>>

-----------------------------------------------------------------------------
(* The remote agent protocol: what one POST can come back with *)

NoBody == <<>>
NoParams == <<>>

\* client.post raised (connection refused, timeout)
Transport == [kind |-> "transport", status |-> 0, wellformed |-> FALSE, body |-> NoBody]
\* a response with a status other than 200
Status(code) == [kind |-> "http", status |-> code, wellformed |-> TRUE, body |-> NoBody]
\* a 200 response whose body response.json(), the error lookup or the result
\* model's validation rejects
Malformed200 == [kind |-> "http", status |-> 200, wellformed |-> FALSE, body |-> NoBody]
\* a 200 response with a JSON object as body
Ok200(body) == [kind |-> "http", status |-> 200, wellformed |-> TRUE, body |-> body]

ReadyNodes == {5, 21}
CpuPercents == {10, 90}

Payloads(tool_name) ==
    CASE tool_name = "get_cluster_metrics" -> {[ready_nodes |-> n] : n \in ReadyNodes}
      [] tool_name = "system_info" -> {[cpu_percent |-> c] : c \in CpuPercents}
      [] OTHER -> {[status |-> "ok"]}

ErrorBodies == {[error |-> [message |-> "tool failed"]], [error |-> [code |-> 1]]}

Bodies(tool_name) ==
    {[result |-> p] : p \in Payloads(tool_name)} \cup Payloads(tool_name) \cup ErrorBodies

Responses(tool_name) ==
    {Transport, Status(500), Malformed200} \cup {Ok200(b) : b \in Bodies(tool_name)}

\* the JSON value null where a string is expected, and the Python value it gives
JsonNull == "\\null"
Nullable(v) == IF v = JsonNull THEN None ELSE Some(v)

\* str(data["error"]) of an error object without a message
str(e) == "{'code': " \o ToString(e.code) \o "}"

-----------------------------------------------------------------------------
(* ProbeRouter.call_tool *)

\* duration_ms, a measurement no code path reads, is left out
MCPCallResult(success, probe_id, tool_name, result, error) ==
    [success |-> success, probe_id |-> probe_id, tool_name |-> tool_name,
     result |-> result, error |-> error]

\* the coroutine slots: one for an invocation made directly by a client, and one
\* per coroutine a gather of the aggregator or the controller's cycle holds
DirectSlots == {"direct"}
FanSlots == {"fan1", "fan2", "fan3"}
MoreSlots == {"fan4", "fan5", "fan6"}
Slots == DirectSlots \cup FanSlots \cup MoreSlots

\* pc: idle | posting (awaiting client.post) | sleeping (awaiting asyncio.sleep) | done
\* sent, backoff, seen, last record what the coroutine did: the POSTs it sent, the
\* sleep it made after each failed attempt that was followed by another (0: none),
\* how each attempt ended, and the response of the latest one.
IdleCall ==
    [pc |-> "idle", target |-> "", tool_name |-> "", params |-> NoParams,
     probe_id |-> "", attempt |-> 0, wake |-> 0,
     sent |-> 0, backoff |-> <<>>, seen |-> <<>>, last |-> None, result |-> None]

\* how the code of lines 226-269 takes a response
Outcome(r) ==
    IF r.kind = "transport" THEN "exception"
    ELSE IF r.status # 200 THEN "status"
    ELSE IF ~r.wellformed THEN "exception"
    ELSE IF "error" \in DOMAIN r.body THEN "mcp_error"
    ELSE "success"

Returned(c, res) == [c EXCEPT !.pc = "done", !.result = Some(res)]

\* lines 271-281: the loop ran out
AllFailed(c) ==
    Returned(c, MCPCallResult(FALSE, c.probe_id, c.tool_name, None,
                 Some("All " \o ToString(max_retries) \o " attempts failed")))

\* lines 211-230: one more turn of the loop, up to the POST
Post(c) == [c EXCEPT !.pc = "posting", !.sent = @ + 1]

\* the state of the coroutine and of the registry after the loop moves past a
\* failed attempt without sleeping
NextTurn(c) ==
    IF c.attempt + 1 < max_retries
    THEN [call |-> Post([c EXCEPT !.attempt = @ + 1]), probes |-> probes]
    ELSE [call |-> AllFailed(c), probes |-> WithHealth(probes, c.probe_id, FALSE)]

\* CallStart without the health check of lines 199-205
CallStart_NoHealthCheck(target, tool_name, params) ==
    LET probe == get_probe(target)
        c0 == [IdleCall EXCEPT !.target = target, !.tool_name = tool_name,
                               !.params = params]
    IN IF IsNone(probe)
       THEN [call |-> Returned([c0 EXCEPT !.probe_id = target],
                         MCPCallResult(FALSE, target, tool_name, None,
                             Some("No probe found for target: " \o target))),
             probes |-> probes]
       ELSE [call |-> Post([c0 EXCEPT !.probe_id = probe[1].probe_id]), probes |-> probes]

\* CallStart that marks a target it cannot resolve as unhealthy
CallStart_TouchesUnknown(target, tool_name, params) ==
    LET probe == get_probe(target)
        c0 == [IdleCall EXCEPT !.target = target, !.tool_name = tool_name,
                               !.params = params]
    IN IF IsNone(probe)
       THEN [call |-> Returned([c0 EXCEPT !.probe_id = target],
                         MCPCallResult(FALSE, target, tool_name, None,
                             Some("No probe found for target: " \o target))),
             probes |-> IF Len(probes) > 0
                        THEN WithHealth(probes, probes[1].probe_id, FALSE) ELSE probes]
       ELSE IF ~probe[1].healthy
       THEN [call |-> Returned([c0 EXCEPT !.probe_id = probe[1].probe_id],
                         MCPCallResult(FALSE, probe[1].probe_id, tool_name, None,
                             Some("Probe " \o probe[1].probe_id \o " is unhealthy"))),
             probes |-> probes]
       ELSE [call |-> Post([c0 EXCEPT !.probe_id = probe[1].probe_id]), probes |-> probes]

\* lines 190-230: resolve, fail fast, or send the first POST
CallStart(target, tool_name, params) ==
    LET probe == get_probe(target)
        c0 == [IdleCall EXCEPT !.target = target, !.tool_name = tool_name,
                               !.params = params]
    IN IF IsNone(probe)
       THEN [call |-> Returned([c0 EXCEPT !.probe_id = target],
                         MCPCallResult(FALSE, target, tool_name, None,
                             Some("No probe found for target: " \o target))),
             probes |-> probes]
       ELSE IF ~probe[1].healthy
       THEN [call |-> Returned([c0 EXCEPT !.probe_id = probe[1].probe_id],
                         MCPCallResult(FALSE, probe[1].probe_id, tool_name, None,
                             Some("Probe " \o probe[1].probe_id \o " is unhealthy"))),
             probes |-> probes]
       ELSE LET c1 == [c0 EXCEPT !.probe_id = probe[1].probe_id]
            IN IF max_retries > 0
               THEN [call |-> Post(c1), probes |-> probes]
               ELSE [call |-> AllFailed(c1),
                     probes |-> WithHealth(probes, c1.probe_id, FALSE)]

\* the except branch with a retry budget one short
OnException_OneShort(c) ==
    IF c.attempt < max_retries - 2
    THEN [call |-> [c EXCEPT !.pc = "sleeping", !.wake = now + 1 * (c.attempt + 1),
                             !.backoff = Append(@, 1 * (c.attempt + 1))],
          probes |-> probes]
    ELSE [call |-> AllFailed(c), probes |-> WithHealth(probes, c.probe_id, FALSE)]

\* lines 264-269: the except branch
OnException(c) ==
    IF c.attempt < max_retries - 1
    THEN [call |-> [c EXCEPT !.pc = "sleeping", !.wake = now + 1 * (c.attempt + 1),
                             !.backoff = Append(@, 1 * (c.attempt + 1))],
          probes |-> probes]
    ELSE [call |-> AllFailed(c), probes |-> WithHealth(probes, c.probe_id, FALSE)]

\* lines 259-262: a status other than 200 is logged, and the loop goes on
OnStatus(c) ==
    NextTurn([c EXCEPT !.backoff = IF c.attempt + 1 < max_retries THEN Append(@, 0) ELSE @])

\* an error field taken as one more failed attempt
OnMcpError_Retry(c, data) == OnException(c)

\* lines 237-245: a 200 response with an error field
OnMcpError(c, data) ==
    [call |-> Returned(c, MCPCallResult(FALSE, c.probe_id, c.tool_name, None,
                  IF "message" \in DOMAIN data.error
                  THEN Nullable(data.error.message) ELSE Some(str(data.error)))),
     probes |-> probes]

\* the success branch without update_health
OnSuccess_NoHealth(c, data) ==
    [call |-> Returned(c, MCPCallResult(TRUE, c.probe_id, c.tool_name,
                  Some(IF "result" \in DOMAIN data THEN data.result ELSE data),
                  None)),
     probes |-> probes]

\* lines 247-258: a 200 response without one
OnSuccess(c, data) ==
    [call |-> Returned(c, MCPCallResult(TRUE, c.probe_id, c.tool_name,
                  Some(IF "result" \in DOMAIN data THEN data.result ELSE data),
                  None)),
     probes |-> WithHealth(probes, c.probe_id, TRUE)]

\* lines 226-269: the code run when the POST of slot c comes back with r
OnResponse(c0, r) ==
    LET c == [c0 EXCEPT !.seen = Append(@, Outcome(r)), !.last = Some(r)]
    IN CASE Outcome(r) = "exception" -> OnException(c)
         [] Outcome(r) = "status" -> OnStatus(c)
         [] Outcome(r) = "mcp_error" -> OnMcpError(c, r.body)
         [] Outcome(r) = "success" -> OnSuccess(c, r.body)

\* a loop whose attempt counter stands still over a sleep
OnWake_SameAttempt(c) == Post(c)

\* after asyncio.sleep: the next turn of the loop
OnWake(c) == Post([c EXCEPT !.attempt = @ + 1])

call_tool(s, target, tool_name, params) ==
    /\ calls[s].pc = "idle"
    /\ LET n == CallStart(target, tool_name, params)
       IN /\ calls' = [calls EXCEPT ![s] = n.call]
          /\ probes' = n.probes
    /\ UNCHANGED <<routing_table, now, ctlVars, tasks>>

call_tool_response(s, r) ==
    /\ calls[s].pc = "posting"
    /\ LET n == OnResponse(calls[s], r)
       IN /\ calls' = [calls EXCEPT ![s] = n.call]
          /\ probes' = n.probes
    /\ UNCHANGED <<routing_table, now, ctlVars, tasks>>

call_tool_wake(s) ==
    /\ calls[s].pc = "sleeping"
    /\ now >= calls[s].wake
    /\ calls' = [calls EXCEPT ![s] = OnWake(calls[s])]
    /\ UNCHANGED <<probes, routing_table, now, ctlVars, tasks>>

\* the caller of a direct invocation takes the result
call_tool_return(s) ==
    /\ s \in DirectSlots
    /\ calls[s].pc = "done"
    /\ calls' = [calls EXCEPT ![s] = IdleCall]
    /\ UNCHANGED <<probes, routing_table, now, ctlVars, tasks>>

Tick ==
    /\ now < MaxTime
    /\ now' = now + 1
    /\ UNCHANGED <<probes, routing_table, calls, ctlVars, tasks>>

-----------------------------------------------------------------------------
(* MetricsAggregator *)

\* a JSON value that is not a number where the code expects one (null, a string)
NotANumber == -1

Get(d, k, default) == IF k \in DOMAIN d THEN d[k] ELSE default

RECURSIVE Sum(_)
Sum(xs) == IF Len(xs) = 0 THEN 0 ELSE Head(xs) + Sum(Tail(xs))

Map(xs, F(_)) == [i \in 1..Len(xs) |-> F(xs[i])]

\* timestamps of the records other than the snapshot's are left out
ClusterMetrics(data) ==
    [total_nodes |-> Get(data, "total_nodes", 0),
     ready_nodes |-> Get(data, "ready_nodes", 0),
     total_pods |-> Get(data, "total_pods", 0),
     running_pods |-> Get(data, "running_pods", 0)]

\* lines 126-143: the cluster record of a get_cluster_metrics result
ClusterOf(result) ==
    IF ~result.success THEN None
    ELSE Some(ClusterMetrics(IF IsSome(result.result) THEN result.result[1] ELSE <<>>))

\* lines 172-194: the node record of a system_info result
NodeMetrics(probe, result) ==
    IF ~result.success
    THEN [probe_id |-> probe.probe_id, hostname |-> probe.hostname,
          probe_type |-> probe.probe_type, cpu_percent |-> 0, memory_percent |-> 0,
          power_watts |-> None, error |-> result.error]
    ELSE LET data == IF IsSome(result.result) THEN result.result[1] ELSE <<>>
         IN [probe_id |-> probe.probe_id, hostname |-> probe.hostname,
             probe_type |-> probe.probe_type,
             cpu_percent |-> Get(data, "cpu_percent", 0),
             memory_percent |-> Get(data, "memory_percent", 0),
             power_watts |-> IF "power_watts" \in DOMAIN data
                             THEN Some(data.power_watts) ELSE None,
             error |-> None]

ValidNodes(nodes) == SelectSeq(nodes, LAMBDA n : IsNone(n.error))

\* sum() over a value that is not a number raises TypeError
AggregatesRaise(nodes) ==
    \E i \in 1..Len(ValidNodes(nodes)) :
        \/ ValidNodes(nodes)[i].cpu_percent = NotANumber
        \/ ValidNodes(nodes)[i].memory_percent = NotANumber

\* AggregatedMetrics(timestamp, cluster, nodes) followed by compute_aggregates();
\* the averages are kept in hundredths, the precision get_summary rounds to
AggregatedMetrics(cluster, nodes) ==
    LET valid == ValidNodes(nodes)
        power == SelectSeq(valid, LAMBDA n : IsSome(n.power_watts))
        empty == [timestamp |-> now, cluster |-> cluster, nodes |-> nodes,
                  total_probes |-> 0, healthy_probes |-> 0, avg_cpu_percent |-> 0,
                  avg_memory_percent |-> 0, total_power_watts |-> None]
    IN IF Len(nodes) = 0 THEN empty
       ELSE [empty EXCEPT
               !.total_probes = Len(nodes) + (IF IsSome(cluster) THEN 1 ELSE 0),
               !.healthy_probes = Len(valid),
               !.avg_cpu_percent =
                   IF Len(valid) > 0
                   THEN (100 * Sum(Map(valid, LAMBDA n : n.cpu_percent))) \div Len(valid)
                   ELSE 0,
               !.avg_memory_percent =
                   IF Len(valid) > 0
                   THEN (100 * Sum(Map(valid, LAMBDA n : n.memory_percent))) \div Len(valid)
                   ELSE 0,
               !.total_power_watts =
                   IF Len(valid) > 0 /\ Len(power) > 0
                   THEN Some(Sum(Map(power, LAMBDA n : n.power_watts[1])))
                   ELSE None]

NoCache == [snapshot |-> None, time |-> None]

\* a cache still valid at the age of the TTL
_cache_valid_Inclusive ==
    IF IsNone(cache.snapshot) \/ IsNone(cache.time) THEN FALSE
    ELSE (now - cache.time[1]) <= cache_ttl

_cache_valid ==
    IF IsNone(cache.snapshot) \/ IsNone(cache.time) THEN FALSE
    ELSE (now - cache.time[1]) < cache_ttl

\* lines 241-260: the summary of a snapshot
Summary(metrics) ==
    [timestamp |-> metrics.timestamp,
     total_probes |-> metrics.total_probes,
     healthy_probes |-> metrics.healthy_probes,
     avg_cpu_percent |-> metrics.avg_cpu_percent,
     avg_memory_percent |-> metrics.avg_memory_percent,
     total_power_watts |-> metrics.total_power_watts,
     cluster |-> metrics.cluster]

\* the slots of the coroutines collect_all gathers: the first for
\* collect_cluster_metrics, the others for _collect_single_node in target order
FanSeq == <<"fan1", "fan2", "fan3">>

\* lines 153-155: the agents collect_node_metrics resolves, in order
NodeProbes ==
    list_probes(Some(VM_SYSTEM), FALSE) \o list_probes(Some(HOST_SYSTEM), FALSE)

NoGather == [cluster |-> FALSE, nodes |-> <<>>]

\* lines 213-216: what the gather of collect_all starts
GatherOf == [cluster |-> Len(list_probes(Some(K8S), FALSE)) > 0, nodes |-> NodeProbes]

\* the coroutine slots once every call of the gather ran to its first suspension
GatherCalls(g) ==
    [s \in Slots |->
        IF s = FanSeq[1] /\ g.cluster
        THEN CallStart(list_probes(Some(K8S), FALSE)[1].probe_id,
                       "get_cluster_metrics", NoParams).call
        ELSE IF \E j \in 1..Len(g.nodes) : s = FanSeq[j + 1]
        THEN LET j == CHOOSE j \in 1..Len(g.nodes) : s = FanSeq[j + 1]
             IN CallStart(g.nodes[j].probe_id, "system_info", NoParams).call
        ELSE calls[s]]

GatherDone(g) ==
    /\ g.cluster => calls[FanSeq[1]].pc = "done"
    /\ \A j \in 1..Len(g.nodes) : calls[FanSeq[j + 1]].pc = "done"

\* lines 216-223: the results of the gather, in target order
GatherCluster(g) == IF g.cluster THEN ClusterOf(calls[FanSeq[1]].result[1]) ELSE None
GatherNodes(g) ==
    [j \in 1..Len(g.nodes) |-> NodeMetrics(g.nodes[j], calls[FanSeq[j + 1]].result[1])]

-----------------------------------------------------------------------------
(* The callers of the fan-out operations: MetricsAggregator.collect_all,       *)
(* MetricsAggregator.collect_node_metrics, ProbeRouter.broadcast               *)

Tasks == {"t1", "t2"}

\* the coroutine slots of a caller: the first for collect_cluster_metrics, the
\* others for the per-agent calls in target order
TaskSlots(t) == IF t = "t1" THEN FanSeq ELSE <<"fan4", "fan5", "fan6">>

\* pc: idle | gather (awaiting asyncio.gather) | serial (awaiting call k of a
\* sequential broadcast) | done (returned or raised, not yet taken by the caller)
IdleTask ==
    [pc |-> "idle", op |-> "", force_refresh |-> FALSE, parallel |-> FALSE,
     tool_name |-> "", params |-> <<>>, cluster |-> FALSE, targets |-> <<>>,
     k |-> 0, results |-> <<>>, returned |-> None, raised |-> FALSE, cached |-> FALSE]

\* lines 150-155: the agents of the given categories, category by category
RECURSIVE NodeProbesOf(_)
NodeProbesOf(probe_types) ==
    IF Len(probe_types) = 0 THEN <<>>
    ELSE list_probes(Some(Head(probe_types)), FALSE) \o NodeProbesOf(Tail(probe_types))

\* the coroutine slots once every call of a fan-out ran to its first suspension
StartAll(t, cluster, targets, tool_name, params) ==
    [s \in Slots |->
        IF s = TaskSlots(t)[1] /\ cluster
        THEN CallStart(list_probes(Some(K8S), FALSE)[1].probe_id,
                       "get_cluster_metrics", NoParams).call
        ELSE IF \E j \in 1..Len(targets) : s = TaskSlots(t)[j + 1]
        THEN LET j == CHOOSE j \in 1..Len(targets) : s = TaskSlots(t)[j + 1]
             IN CallStart(targets[j].probe_id, tool_name, params).call
        ELSE calls[s]]

AllDone(t) ==
    /\ tasks[t].cluster => calls[TaskSlots(t)[1]].pc = "done"
    /\ \A j \in 1..Len(tasks[t].targets) : calls[TaskSlots(t)[j + 1]].pc = "done"

\* the results of a gather, in the order of its arguments
ResultsOf(t) ==
    [j \in 1..Len(tasks[t].targets) |-> calls[TaskSlots(t)[j + 1]].result[1]]

FreeTask(t) ==
    [s \in Slots |->
        IF \E j \in 1..Len(TaskSlots(t)) : s = TaskSlots(t)[j] THEN IdleCall ELSE calls[s]]

Began(t, op) == [IdleTask EXCEPT !.pc = "gather", !.op = op]

\* aggregator.py lines 206-216
collect_all(t, force_refresh) ==
    /\ tasks[t].pc = "idle"
    /\ IF ~force_refresh /\ _cache_valid
       THEN /\ tasks' = [tasks EXCEPT ![t] =
                           [IdleTask EXCEPT !.pc = "done", !.op = "collect_all",
                                            !.returned = cache.snapshot, !.cached = TRUE]]
            /\ UNCHANGED calls
       ELSE /\ tasks' = [tasks EXCEPT ![t] =
                           [Began(t, "collect_all") EXCEPT
                               !.force_refresh = force_refresh,
                               !.cluster = GatherOf.cluster, !.targets = GatherOf.nodes]]
            /\ calls' = StartAll(t, GatherOf.cluster, GatherOf.nodes, "system_info", NoParams)
    /\ UNCHANGED <<probes, routing_table, now, policies, history, cycle_count, cache, run>>

\* a snapshot stamped with the time the aggregator was built
collect_all_done_Unstamped(t) ==
    /\ tasks[t].pc = "gather" /\ tasks[t].op = "collect_all"
    /\ AllDone(t)
    /\ LET cluster == IF tasks[t].cluster
                      THEN ClusterOf(calls[TaskSlots(t)[1]].result[1]) ELSE None
           nodes == [j \in 1..Len(tasks[t].targets) |->
                        NodeMetrics(tasks[t].targets[j], ResultsOf(t)[j])]
           metrics == [AggregatedMetrics(cluster, nodes) EXCEPT !.timestamp = 0]
       IN IF AggregatesRaise(nodes)
          THEN /\ tasks' = [tasks EXCEPT ![t].pc = "done", ![t].raised = TRUE]
               /\ UNCHANGED cache
          ELSE /\ tasks' = [tasks EXCEPT ![t].pc = "done", ![t].returned = Some(metrics)]
               /\ cache' = [snapshot |-> Some(metrics), time |-> Some(now)]
    /\ calls' = FreeTask(t)
    /\ UNCHANGED <<probes, routing_table, now, policies, history, cycle_count, run>>

\* aggregator.py lines 216-235
collect_all_done(t) ==
    /\ tasks[t].pc = "gather" /\ tasks[t].op = "collect_all"
    /\ AllDone(t)
    /\ LET cluster == IF tasks[t].cluster
                      THEN ClusterOf(calls[TaskSlots(t)[1]].result[1]) ELSE None
           nodes == [j \in 1..Len(tasks[t].targets) |->
                        NodeMetrics(tasks[t].targets[j], ResultsOf(t)[j])]
           metrics == AggregatedMetrics(cluster, nodes)
       IN IF AggregatesRaise(nodes)
          THEN /\ tasks' = [tasks EXCEPT ![t].pc = "done", ![t].raised = TRUE]
               /\ UNCHANGED cache
          ELSE /\ tasks' = [tasks EXCEPT ![t].pc = "done", ![t].returned = Some(metrics)]
               /\ cache' = [snapshot |-> Some(metrics), time |-> Some(now)]
    /\ calls' = FreeTask(t)
    /\ UNCHANGED <<probes, routing_table, now, policies, history, cycle_count, run>>

\* collect_node_metrics over the healthy agents only
collect_node_metrics_HealthyOnly(t, probe_types) ==
    /\ tasks[t].pc = "idle"
    /\ LET all_probes == SelectSeq(NodeProbesOf(IF IsSome(probe_types) THEN probe_types[1]
                                                ELSE <<VM_SYSTEM, HOST_SYSTEM>>),
                                   LAMBDA q : q.healthy)
       IN /\ tasks' = [tasks EXCEPT ![t] =
                         [Began(t, "collect_node_metrics") EXCEPT !.targets = all_probes]]
          /\ calls' = StartAll(t, FALSE, all_probes, "system_info", NoParams)
    /\ UNCHANGED <<probes, routing_table, now, ctlVars>>

\* aggregator.py lines 150-162, up to the gather
collect_node_metrics(t, probe_types) ==
    /\ tasks[t].pc = "idle"
    /\ LET all_probes == NodeProbesOf(IF IsSome(probe_types) THEN probe_types[1]
                                      ELSE <<VM_SYSTEM, HOST_SYSTEM>>)
       IN /\ tasks' = [tasks EXCEPT ![t] =
                         [Began(t, "collect_node_metrics") EXCEPT !.targets = all_probes]]
          /\ calls' = StartAll(t, FALSE, all_probes, "system_info", NoParams)
    /\ UNCHANGED <<probes, routing_table, now, ctlVars>>

\* aggregator.py lines 162 and 172-194: the gather returns
collect_node_metrics_done(t) ==
    /\ tasks[t].pc = "gather" /\ tasks[t].op = "collect_node_metrics"
    /\ AllDone(t)
    /\ tasks' = [tasks EXCEPT ![t].pc = "done",
                              ![t].returned =
                                  Some([j \in 1..Len(tasks[t].targets) |->
                                           NodeMetrics(tasks[t].targets[j], ResultsOf(t)[j])])]
    /\ calls' = FreeTask(t)
    /\ UNCHANGED <<probes, routing_table, now, ctlVars>>

\* router.py lines 302-315, up to the first suspension
broadcast(t, tool_name, params, probe_type, parallel) ==
    /\ tasks[t].pc = "idle"
    /\ LET targets == list_probes(probe_type, TRUE)
           b == [Began(t, "broadcast") EXCEPT !.parallel = parallel, !.targets = targets,
                                              !.tool_name = tool_name, !.params = params]
       IN IF parallel
          THEN /\ tasks' = [tasks EXCEPT ![t] = b]
               /\ calls' = StartAll(t, FALSE, targets, tool_name, params)
          ELSE IF Len(targets) = 0
          THEN /\ tasks' = [tasks EXCEPT ![t] = [b EXCEPT !.pc = "done",
                                                         !.returned = Some(<<>>)]]
               /\ UNCHANGED calls
          ELSE /\ tasks' = [tasks EXCEPT ![t] = [b EXCEPT !.pc = "serial", !.k = 1]]
               /\ calls' = [calls EXCEPT ![TaskSlots(t)[2]] =
                               CallStart(targets[1].probe_id, tool_name, params).call]
    /\ UNCHANGED <<probes, routing_table, now, ctlVars>>

\* sequential broadcast that stops at the first failed call
broadcast_next_Abort(t) ==
    /\ tasks[t].pc = "serial"
    /\ calls[TaskSlots(t)[2]].pc = "done"
    /\ LET r == calls[TaskSlots(t)[2]].result[1]
           results == Append(tasks[t].results, r)
       IN IF tasks[t].k < Len(tasks[t].targets) /\ r.success
          THEN /\ tasks' = [tasks EXCEPT ![t].k = @ + 1, ![t].results = results]
               /\ calls' = [calls EXCEPT ![TaskSlots(t)[2]] =
                               CallStart(tasks[t].targets[tasks[t].k + 1].probe_id,
                                         tasks[t].tool_name, tasks[t].params).call]
          ELSE /\ tasks' = [tasks EXCEPT ![t].pc = "done", ![t].results = results,
                                         ![t].returned = Some(results)]
               /\ calls' = FreeTask(t)
    /\ UNCHANGED <<probes, routing_table, now, ctlVars>>

\* router.py lines 311-315: call k returned; the next call, or the return
broadcast_next(t) ==
    /\ tasks[t].pc = "serial"
    /\ calls[TaskSlots(t)[2]].pc = "done"
    /\ LET results == Append(tasks[t].results, calls[TaskSlots(t)[2]].result[1])
       IN IF tasks[t].k < Len(tasks[t].targets)
          THEN /\ tasks' = [tasks EXCEPT ![t].k = @ + 1, ![t].results = results]
               /\ calls' = [calls EXCEPT ![TaskSlots(t)[2]] =
                               CallStart(tasks[t].targets[tasks[t].k + 1].probe_id,
                                         tasks[t].tool_name, tasks[t].params).call]
          ELSE /\ tasks' = [tasks EXCEPT ![t].pc = "done", ![t].results = results,
                                         ![t].returned = Some(results)]
               /\ calls' = FreeTask(t)
    /\ UNCHANGED <<probes, routing_table, now, ctlVars>>

\* router.py line 309: the gather of a parallel broadcast returns
broadcast_done(t) ==
    /\ tasks[t].pc = "gather" /\ tasks[t].op = "broadcast"
    /\ AllDone(t)
    /\ tasks' = [tasks EXCEPT ![t].pc = "done", ![t].results = ResultsOf(t),
                              ![t].returned = Some(ResultsOf(t))]
    /\ calls' = FreeTask(t)
    /\ UNCHANGED <<probes, routing_table, now, ctlVars>>

\* the caller takes what the operation returned
task_return(t) ==
    /\ tasks[t].pc = "done"
    /\ tasks' = [tasks EXCEPT ![t] = IdleTask]
    /\ UNCHANGED <<probes, routing_table, calls, now, ctlVars>>

\* time passes between two calls of a caller
Elapse(d) ==
    /\ now < MaxElapse * cache_ttl
    /\ now' = now + d
    /\ UNCHANGED <<probes, routing_table, calls, ctlVars, tasks>>

-----------------------------------------------------------------------------
(* OptimizationController: policies *)

CONSOLIDATE == "consolidate"
SCALE_DOWN == "scale_down"
POWER_SAVE == "power_save"
PERFORMANCE == "performance"

CONSOLIDATE_WORKLOADS == "consolidate_workloads"
DRAIN_NODE == "drain_node"
SET_GOVERNOR == "set_governor"
SET_POWER_CAP == "set_power_cap"
CORDON_NODE == "cordon_node"
UNCORDON_NODE == "uncordon_node"

Policy(name, policy_type, priority, conditions, parameters) ==
    [name |-> name, policy_type |-> policy_type, enabled |-> TRUE,
     priority |-> priority, conditions |-> conditions, parameters |-> parameters]

Action(action_type, target, parameters, reason, policy, priority, dry_run) ==
    [action_type |-> action_type, target |-> target, parameters |-> parameters,
     reason |-> reason, policy |-> policy, priority |-> priority, dry_run |-> dry_run]

\* a sort that puts a new element before its equals
InsertByPriority_Unstable(sorted, x) ==
    LET k == Cardinality({i \in 1..Len(sorted) : sorted[i].priority > x.priority})
    IN SubSeq(sorted, 1, k) \o <<x>> \o SubSeq(sorted, k + 1, Len(sorted))

\* list.sort(key=priority, reverse=True): stable, descending
InsertByPriority(sorted, x) ==
    LET k == Cardinality({i \in 1..Len(sorted) : sorted[i].priority >= x.priority})
    IN SubSeq(sorted, 1, k) \o <<x>> \o SubSeq(sorted, k + 1, Len(sorted))

RECURSIVE SortByPriority(_)
SortByPriority(xs) ==
    IF Len(xs) = 0 THEN <<>>
    ELSE InsertByPriority(SortByPriority(SubSeq(xs, 1, Len(xs) - 1)), xs[Len(xs)])

NoPolicies == <<>>

\* consolidation at min_nodes ready nodes already
_evaluate_policy_Inclusive(policy, metrics) ==
    CASE policy.policy_type = CONSOLIDATE ->
           IF IsSome(metrics.cluster)
           THEN LET active_nodes == metrics.cluster[1].ready_nodes
                    target_nodes == Get(policy.parameters, "target_nodes", 5)
                    min_nodes == Get(policy.conditions, "min_nodes", 10)
                IN IF active_nodes = NotANumber
                   THEN [raises |-> TRUE, actions |-> <<>>]
                   ELSE IF active_nodes >= min_nodes
                   THEN [raises |-> FALSE, actions |-> <<
                           Action(CONSOLIDATE_WORKLOADS, "cluster",
                                  [target_node_count |-> target_nodes,
                                   dry_run |-> Get(policy.parameters, "dry_run", TRUE)],
                                  "Over-provisioned: " \o ToString(active_nodes) \o " > "
                                      \o ToString(min_nodes) \o " nodes",
                                  policy.name, policy.priority,
                                  Get(policy.parameters, "dry_run", TRUE)) >>]
                   ELSE [raises |-> FALSE, actions |-> <<>>]
           ELSE [raises |-> FALSE, actions |-> <<>>]
      [] policy.policy_type = POWER_SAVE ->
           LET threshold == Get(policy.conditions, "cpu_threshold", 20)
               low == SelectSeq(metrics.nodes,
                          LAMBDA n : IsNone(n.error) /\ n.cpu_percent < threshold)
           IN [raises |-> FALSE,
               actions |-> Map(low, LAMBDA n :
                   Action(SET_GOVERNOR, n.probe_id, [governor |-> "powersave"],
                          "Low CPU usage: " \o ToString(n.cpu_percent) \o ".0%",
                          policy.name, policy.priority,
                          Get(policy.parameters, "dry_run", TRUE)))]
      [] policy.policy_type = PERFORMANCE ->
           LET threshold == Get(policy.conditions, "cpu_threshold", 80)
               high == SelectSeq(metrics.nodes,
                          LAMBDA n : IsNone(n.error) /\ n.cpu_percent > threshold)
           IN [raises |-> FALSE,
               actions |-> Map(high, LAMBDA n :
                   Action(SET_GOVERNOR, n.probe_id, [governor |-> "performance"],
                          "High CPU usage: " \o ToString(n.cpu_percent) \o ".0%",
                          policy.name, policy.priority,
                          Get(policy.parameters, "dry_run", TRUE)))]
      [] OTHER -> [raises |-> FALSE, actions |-> <<>>]

\* node records with an error evaluated like the others
_evaluate_policy_ErrorRecords(policy, metrics) ==
    CASE policy.policy_type = CONSOLIDATE ->
           IF IsSome(metrics.cluster)
           THEN LET active_nodes == metrics.cluster[1].ready_nodes
                    target_nodes == Get(policy.parameters, "target_nodes", 5)
                    min_nodes == Get(policy.conditions, "min_nodes", 10)
                IN IF active_nodes = NotANumber
                   THEN [raises |-> TRUE, actions |-> <<>>]
                   ELSE IF active_nodes > min_nodes
                   THEN [raises |-> FALSE, actions |-> <<
                           Action(CONSOLIDATE_WORKLOADS, "cluster",
                                  [target_node_count |-> target_nodes,
                                   dry_run |-> Get(policy.parameters, "dry_run", TRUE)],
                                  "Over-provisioned: " \o ToString(active_nodes) \o " > "
                                      \o ToString(min_nodes) \o " nodes",
                                  policy.name, policy.priority,
                                  Get(policy.parameters, "dry_run", TRUE)) >>]
                   ELSE [raises |-> FALSE, actions |-> <<>>]
           ELSE [raises |-> FALSE, actions |-> <<>>]
      [] policy.policy_type = POWER_SAVE ->
           LET threshold == Get(policy.conditions, "cpu_threshold", 20)
               low == SelectSeq(metrics.nodes,
                          LAMBDA n : n.cpu_percent < threshold)
           IN [raises |-> FALSE,
               actions |-> Map(low, LAMBDA n :
                   Action(SET_GOVERNOR, n.probe_id, [governor |-> "powersave"],
                          "Low CPU usage: " \o ToString(n.cpu_percent) \o ".0%",
                          policy.name, policy.priority,
                          Get(policy.parameters, "dry_run", TRUE)))]
      [] policy.policy_type = PERFORMANCE ->
           LET threshold == Get(policy.conditions, "cpu_threshold", 80)
               high == SelectSeq(metrics.nodes,
                          LAMBDA n : n.cpu_percent > threshold)
           IN [raises |-> FALSE,
               actions |-> Map(high, LAMBDA n :
                   Action(SET_GOVERNOR, n.probe_id, [governor |-> "performance"],
                          "High CPU usage: " \o ToString(n.cpu_percent) \o ".0%",
                          policy.name, policy.priority,
                          Get(policy.parameters, "dry_run", TRUE)))]
      [] OTHER -> [raises |-> FALSE, actions |-> <<>>]

\* lines 166-217; raises: a comparison with a value that is not a number
_evaluate_policy(policy, metrics) ==
    CASE policy.policy_type = CONSOLIDATE ->
           IF IsSome(metrics.cluster)
           THEN LET active_nodes == metrics.cluster[1].ready_nodes
                    target_nodes == Get(policy.parameters, "target_nodes", 5)
                    min_nodes == Get(policy.conditions, "min_nodes", 10)
                IN IF active_nodes = NotANumber
                   THEN [raises |-> TRUE, actions |-> <<>>]
                   ELSE IF active_nodes > min_nodes
                   THEN [raises |-> FALSE, actions |-> <<
                           Action(CONSOLIDATE_WORKLOADS, "cluster",
                                  [target_node_count |-> target_nodes,
                                   dry_run |-> Get(policy.parameters, "dry_run", TRUE)],
                                  "Over-provisioned: " \o ToString(active_nodes) \o " > "
                                      \o ToString(min_nodes) \o " nodes",
                                  policy.name, policy.priority,
                                  Get(policy.parameters, "dry_run", TRUE)) >>]
                   ELSE [raises |-> FALSE, actions |-> <<>>]
           ELSE [raises |-> FALSE, actions |-> <<>>]
      [] policy.policy_type = POWER_SAVE ->
           LET threshold == Get(policy.conditions, "cpu_threshold", 20)
               low == SelectSeq(metrics.nodes,
                          LAMBDA n : IsNone(n.error) /\ n.cpu_percent < threshold)
           IN [raises |-> FALSE,
               actions |-> Map(low, LAMBDA n :
                   Action(SET_GOVERNOR, n.probe_id, [governor |-> "powersave"],
                          "Low CPU usage: " \o ToString(n.cpu_percent) \o ".0%",
                          policy.name, policy.priority,
                          Get(policy.parameters, "dry_run", TRUE)))]
      [] policy.policy_type = PERFORMANCE ->
           LET threshold == Get(policy.conditions, "cpu_threshold", 80)
               high == SelectSeq(metrics.nodes,
                          LAMBDA n : IsNone(n.error) /\ n.cpu_percent > threshold)
           IN [raises |-> FALSE,
               actions |-> Map(high, LAMBDA n :
                   Action(SET_GOVERNOR, n.probe_id, [governor |-> "performance"],
                          "High CPU usage: " \o ToString(n.cpu_percent) \o ".0%",
                          policy.name, policy.priority,
                          Get(policy.parameters, "dry_run", TRUE)))]
      [] OTHER -> [raises |-> FALSE, actions |-> <<>>]

\* the loop without the check of the enabled flag
RECURSIVE EvaluateFrom_Disabled(_, _)
EvaluateFrom_Disabled(k, metrics) ==
    IF k > Len(policies) THEN [raises |-> FALSE, actions |-> <<>>]
    ELSE LET one == _evaluate_policy(policies[k], metrics)
             rest == EvaluateFrom_Disabled(k + 1, metrics)
         IN IF one.raises THEN one
            ELSE [raises |-> rest.raises, actions |-> one.actions \o rest.actions]

\* lines 144-151: the loop over the policies, from policy k on
RECURSIVE EvaluateFrom(_, _)
EvaluateFrom(k, metrics) ==
    IF k > Len(policies) THEN [raises |-> FALSE, actions |-> <<>>]
    ELSE IF ~policies[k].enabled THEN EvaluateFrom(k + 1, metrics)
    ELSE LET one == _evaluate_policy(policies[k], metrics)
             rest == EvaluateFrom(k + 1, metrics)
         IN IF one.raises THEN one
            ELSE [raises |-> rest.raises, actions |-> one.actions \o rest.actions]

evaluate_policies(metrics) ==
    LET all == EvaluateFrom(1, metrics)
    IN IF all.raises THEN all
       ELSE [raises |-> FALSE, actions |-> SortByPriority(all.actions)]

-----------------------------------------------------------------------------
(* OptimizationController: execute_action *)

ActionResult(action, success, result, error) ==
    [action |-> action, success |-> success, result |-> result, error |-> error,
     timestamp |-> now]

\* a dispatch with a path of its own for set_power_cap
Dispatch_PowerCap(action) ==
    LET k8s_probes == list_probes(Some(K8S), FALSE)
        none == [kind |-> "error", error |-> "No K8s probe available"]
        Call(target, tool_name, params) ==
            [kind |-> "call", target |-> target, tool_name |-> tool_name, params |-> params]
    IN CASE action.action_type = CONSOLIDATE_WORKLOADS ->
              IF Len(k8s_probes) = 0 THEN none
              ELSE Call(k8s_probes[1].probe_id, "consolidate_workloads", action.parameters)
         [] action.action_type = SET_GOVERNOR ->
              Call(action.target, "set_cpu_governor", action.parameters)
         [] action.action_type = DRAIN_NODE ->
              IF Len(k8s_probes) = 0 THEN none
              ELSE Call(k8s_probes[1].probe_id, "drain_node",
                        action.parameters @@ [node_name |-> action.target])
         [] action.action_type \in {CORDON_NODE, UNCORDON_NODE} ->
              IF Len(k8s_probes) = 0 THEN none
              ELSE Call(k8s_probes[1].probe_id, "set_node_schedulable",
                        [node_name |-> action.target,
                         schedulable |-> (action.action_type = UNCORDON_NODE)])
         [] action.action_type = SET_POWER_CAP ->
              Call(action.target, "set_power_cap", action.parameters)
         [] OTHER -> [kind |-> "error",
                      error |-> "Unknown action type: ActionType." \o action.action_type]

\* lines 232-245 and 269-333: what execute_action does up to its first suspension:
\* a call_tool to start, or the error object of a path that makes no call
Dispatch(action) ==
    LET k8s_probes == list_probes(Some(K8S), FALSE)
        none == [kind |-> "error", error |-> "No K8s probe available"]
        Call(target, tool_name, params) ==
            [kind |-> "call", target |-> target, tool_name |-> tool_name, params |-> params]
    IN CASE action.action_type = CONSOLIDATE_WORKLOADS ->
              IF Len(k8s_probes) = 0 THEN none
              ELSE Call(k8s_probes[1].probe_id, "consolidate_workloads", action.parameters)
         [] action.action_type = SET_GOVERNOR ->
              Call(action.target, "set_cpu_governor", action.parameters)
         [] action.action_type = DRAIN_NODE ->
              IF Len(k8s_probes) = 0 THEN none
              ELSE Call(k8s_probes[1].probe_id, "drain_node",
                        action.parameters @@ [node_name |-> action.target])
         [] action.action_type \in {CORDON_NODE, UNCORDON_NODE} ->
              IF Len(k8s_probes) = 0 THEN none
              ELSE Call(k8s_probes[1].probe_id, "set_node_schedulable",
                        [node_name |-> action.target,
                         schedulable |-> (action.action_type = UNCORDON_NODE)])
         [] OTHER -> [kind |-> "error",
                      error |-> "Unknown action type: ActionType." \o action.action_type]

\* a tool result that is a JSON number, not an object: carried as a record of its own
ScalarResult == [scalar |-> 7]
IsScalar(v) == "scalar" \in DOMAIN v

\* lines 281-284 and 247-267: the ActionResult of a finished call_tool; on a result
\* that is not an object, "error" not in result raises and the except block answers
ResultOfCall(action, call_result) ==
    LET result == IF call_result.success
                  THEN IF IsSome(call_result.result) THEN call_result.result[1] ELSE <<>>
                  ELSE [error |-> call_result.error]
        success == "error" \notin DOMAIN result
    IN IF IsScalar(result)
       THEN ActionResult(action, FALSE, <<>>, Some("argument of type 'int' is not iterable"))
       ELSE ActionResult(action, success, result,
                         IF success THEN None
                         ELSE IF call_result.success THEN Nullable(result.error)
                         ELSE result.error)

\* lines 245-256: the ActionResult of a path that made no call
ResultOfError(action, error) ==
    ActionResult(action, FALSE, [error |-> Some(error)], Some(error))

-----------------------------------------------------------------------------
(* OptimizationController: run_optimization_cycle *)

OptimizationCycle(cycle_id) ==
    [cycle_id |-> cycle_id, start_time |-> now, end_time |-> None,
     metrics_before |-> None, metrics_after |-> None, policies_evaluated |-> <<>>,
     actions_planned |-> <<>>, actions_executed |-> <<>>,
     success |-> FALSE, error |-> None]

\* pc: idle | collect (awaiting the gather of collect_all) | action (awaiting the
\* call_tool of action i) | pause (awaiting asyncio.sleep(1)); phase: which
\* collect_all is running
IdleRun ==
    [pc |-> "idle", dry_run |-> FALSE, phase |-> "", cycle |-> OptimizationCycle(""),
     gather |-> NoGather, i |-> 0, wake |-> 0]

\* the plan left as the policies made it
ForceDryRun_Off(actions, dry_run) == actions

\* lines 377-379
ForceDryRun(actions, dry_run) ==
    IF dry_run THEN [k \in 1..Len(actions) |-> [actions[k] EXCEPT !.dry_run = TRUE]]
    ELSE actions

\* the cycle's success taken from its first result alone
AllSucceeded_FirstOnly(results) == Len(results) = 0 \/ results[1].success

\* line 395
AllSucceeded(results) == \A k \in 1..Len(results) : results[k].success

\* a history that keeps the latest cycle alone
Finish_Latest(cycle) ==
    /\ history' = <<[cycle EXCEPT !.end_time = Some(now)]>>
    /\ run' = IdleRun

\* lines 402-406: the finally block and the return
Finish(cycle) ==
    /\ history' = Append(history, [cycle EXCEPT !.end_time = Some(now)])
    /\ run' = IdleRun

\* the finally block alone: nothing recorded about the fault
Fail_Unrecorded(cycle, error) == Finish(cycle)

\* lines 397-406: the except block, then the finally block
Fail(cycle, error) == Finish([cycle EXCEPT !.success = FALSE, !.error = Some(error)])

FreeFan == [s \in Slots |-> IF s \in FanSlots THEN IdleCall ELSE calls[s]]

\* lines 356-367: up to the gather of collect_all(force_refresh=True)
run_optimization_cycle(dry_run) ==
    /\ run.pc = "idle"
    /\ cycle_count' = cycle_count + 1
    /\ run' = [IdleRun EXCEPT !.pc = "collect", !.dry_run = dry_run, !.phase = "before",
                              !.cycle = OptimizationCycle("cycle-" \o ToString(cycle_count + 1)),
                              !.gather = GatherOf]
    /\ calls' = GatherCalls(GatherOf)
    /\ UNCHANGED <<probes, routing_table, now, policies, history, cache, tasks>>

\* lines 386-388: the actions from k on that return without suspending (a path of
\* execute_action that makes no call), up to the first that starts a call_tool
RECURSIVE Advance(_, _)
Advance(cycle, k) ==
    IF k > Len(cycle.actions_planned) THEN [cycle |-> cycle, i |-> k]
    ELSE LET d == Dispatch(cycle.actions_planned[k])
         IN IF d.kind = "call" THEN [cycle |-> cycle, i |-> k]
            ELSE Advance([cycle EXCEPT !.actions_executed =
                             Append(@, ResultOfError(cycle.actions_planned[k], d.error))],
                         k + 1)

\* lines 386-391: run the actions from k on up to the next suspension: the
\* call_tool of an action, or the pause after the last
Proceed(cycle, k) ==
    LET a == Advance(cycle, k)
    IN IF a.i > Len(cycle.actions_planned)
       THEN /\ run' = [run EXCEPT !.pc = "pause", !.cycle = a.cycle, !.i = a.i,
                                  !.wake = now + 1, !.gather = NoGather]
            /\ calls' = FreeFan
            /\ UNCHANGED history
       ELSE LET d == Dispatch(cycle.actions_planned[a.i])
            IN /\ run' = [run EXCEPT !.pc = "action", !.cycle = a.cycle, !.i = a.i,
                                     !.gather = NoGather]
               /\ calls' = [FreeFan EXCEPT ![FanSeq[1]] =
                               CallStart(d.target, d.tool_name, d.params).call]
               /\ UNCHANGED history

\* lines 216-228 and 368-388: the first collect_all returns; summary, plan, first action
collected_before ==
    /\ run.pc = "collect" /\ run.phase = "before"
    /\ GatherDone(run.gather)
    /\ LET cluster == GatherCluster(run.gather)
           nodes == GatherNodes(run.gather)
           metrics == AggregatedMetrics(cluster, nodes)
           plan == evaluate_policies(metrics)
           c1 == [run.cycle EXCEPT
                    !.metrics_before = Some(Summary(metrics)),
                    !.policies_evaluated =
                        Map(SelectSeq(policies, LAMBDA q : q.enabled), LAMBDA q : q.name)]
       IN IF AggregatesRaise(nodes)
          THEN /\ Fail(run.cycle, "TypeError")
               /\ calls' = FreeFan
               /\ UNCHANGED cache
          ELSE /\ cache' = [snapshot |-> Some(metrics), time |-> Some(now)]
               /\ IF plan.raises
                  THEN /\ Fail(c1, "TypeError")
                       /\ calls' = FreeFan
                  ELSE Proceed([c1 EXCEPT !.actions_planned =
                                   ForceDryRun(plan.actions, run.dry_run)], 1)
    /\ UNCHANGED <<probes, routing_table, now, policies, cycle_count, tasks>>

\* the loop over the actions left at the first action that fails
action_done_Abort ==
    /\ run.pc = "action"
    /\ calls[FanSeq[1]].pc = "done"
    /\ LET r == ResultOfCall(run.cycle.actions_planned[run.i], calls[FanSeq[1]].result[1])
           c == [run.cycle EXCEPT !.actions_executed = Append(@, r)]
       IN Proceed(c, IF r.success THEN run.i + 1 ELSE Len(c.actions_planned) + 1)
    /\ UNCHANGED <<probes, routing_table, now, policies, cycle_count, cache, tasks>>

\* lines 247-256 and 387-388: the call_tool of action i returned
action_done ==
    /\ run.pc = "action"
    /\ calls[FanSeq[1]].pc = "done"
    /\ Proceed([run.cycle EXCEPT !.actions_executed =
                   Append(@, ResultOfCall(run.cycle.actions_planned[run.i],
                                          calls[FanSeq[1]].result[1]))],
               run.i + 1)
    /\ UNCHANGED <<probes, routing_table, now, policies, cycle_count, cache, tasks>>

\* lines 392-406: after the pause, get_summary: the cached snapshot while it is
\* valid, a new collection otherwise
after_pause ==
    /\ run.pc = "pause"
    /\ now >= run.wake
    /\ IF _cache_valid
       THEN /\ Finish([run.cycle EXCEPT
                         !.metrics_after = Some(Summary(cache.snapshot[1])),
                         !.success = AllSucceeded(run.cycle.actions_executed)])
            /\ UNCHANGED calls
       ELSE /\ run' = [run EXCEPT !.pc = "collect", !.phase = "after", !.gather = GatherOf]
            /\ calls' = GatherCalls(GatherOf)
            /\ UNCHANGED history
    /\ UNCHANGED <<probes, routing_table, now, policies, cycle_count, cache, tasks>>

\* lines 216-228 and 392-406: the collect_all of get_summary returns
collected_after ==
    /\ run.pc = "collect" /\ run.phase = "after"
    /\ GatherDone(run.gather)
    /\ LET cluster == GatherCluster(run.gather)
           nodes == GatherNodes(run.gather)
           metrics == AggregatedMetrics(cluster, nodes)
       IN IF AggregatesRaise(nodes)
          THEN /\ Fail(run.cycle, "TypeError")
               /\ UNCHANGED cache
          ELSE /\ cache' = [snapshot |-> Some(metrics), time |-> Some(now)]
               /\ Finish([run.cycle EXCEPT
                            !.metrics_after = Some(Summary(metrics)),
                            !.success = AllSucceeded(run.cycle.actions_executed)])
    /\ calls' = FreeFan
    /\ UNCHANGED <<probes, routing_table, now, policies, cycle_count, tasks>>

\* the controller is driven from one task: policies change between cycles, up to
\* the last cycle run
Manageable == run.pc = "idle" /\ cycle_count < MaxCycles

add_policy(policy) ==
    /\ Manageable
    /\ Len(policies) < MaxPolicies
    /\ policies' = SortByPriority(Append(policies, policy))
    /\ UNCHANGED <<probes, routing_table, calls, now, history, cycle_count, cache, run, tasks>>

remove_policy(name) ==
    /\ Manageable
    /\ policies' = SelectSeq(policies, LAMBDA q : q.name # name)
    /\ UNCHANGED <<probes, routing_table, calls, now, history, cycle_count, cache, run, tasks>>

enable_policy(name, enabled) ==
    /\ Manageable
    /\ policies' =
         IF \E k \in 1..Len(policies) : policies[k].name = name
         THEN LET first == CHOOSE k \in 1..Len(policies) :
                              /\ policies[k].name = name
                              /\ \A j \in 1..(k - 1) : policies[j].name # name
              IN [policies EXCEPT ![first].enabled = enabled]
         ELSE policies
    /\ UNCHANGED <<probes, routing_table, calls, now, history, cycle_count, cache, run, tasks>>

\* time passes up to the next wake-up of a sleeping coroutine
Wakes ==
    {calls[s].wake : s \in {t \in Slots : calls[t].pc = "sleeping" /\ calls[t].wake > now}}
        \cup (IF run.pc = "pause" /\ run.wake > now THEN {run.wake} ELSE {})

TimerTick ==
    /\ Wakes # {}
    /\ now' = CHOOSE w \in Wakes : \A v \in Wakes : w <= v
    /\ UNCHANGED <<probes, routing_table, calls, ctlVars, tasks>>

\* a POST hangs for the client's timeout
Stall ==
    /\ now < MaxTime
    /\ \E s \in Slots : calls[s].pc = "posting"
    /\ now' = now + timeout
    /\ UNCHANGED <<probes, routing_table, calls, ctlVars, tasks>>

-----------------------------------------------------------------------------
(* The router on its own: a client registers and unregisters agents, sets     *)
(* health, and invokes tools, while responses arrive and time passes.         *)

Names == {"n1", "n2"}
Targets == {"n1", "h1", "ghost"}
Endpoint == "http://agent:8080/mcp"

\* the agent descriptors a client registers
Descriptors ==
    { [id |-> "n1", type |-> K8S, hostname |-> "h1"],
      [id |-> "n2", type |-> VM_SYSTEM, hostname |-> "n1"] }

InitRouter ==
    /\ probes = <<>>
    /\ routing_table = <<>>
    /\ calls = [s \in Slots |-> IdleCall]
    /\ now = 0
    /\ policies = NoPolicies
    /\ history = <<>>
    /\ cycle_count = 0
    /\ cache = NoCache
    /\ run = IdleRun
    /\ tasks = [t \in Tasks |-> IdleTask]

NextRouter ==
    \/ \E d \in Descriptors : register_probe(d.id, d.type, Endpoint, d.hostname)
    \/ \E id \in Names : unregister_probe(id)
    \/ \E id \in Names, h \in BOOLEAN : update_health(id, h)
    \/ \E s \in DirectSlots, t \in Targets : call_tool(s, t, "system_info", NoParams)
    \/ \E s \in DirectSlots : \E r \in Responses(calls[s].tool_name) : call_tool_response(s, r)
    \/ \E s \in DirectSlots : call_tool_wake(s)
    \/ \E s \in DirectSlots : call_tool_return(s)
    \/ Tick

Spec == InitRouter /\ [][NextRouter]_vars

-----------------------------------------------------------------------------
(* The controller over a fleet registered at startup: policies are managed     *)
(* between cycles, a cycle runs, its calls are answered, time passes.          *)

Fleet ==
    << [id |-> "k8s", type |-> K8S, hostname |-> "master"],
       [id |-> "vm1", type |-> VM_SYSTEM, hostname |-> "worker-1"] >>

PolicyPool ==
    { Policy("consolidate", CONSOLIDATE, 10, [min_nodes |-> 10],
             [target_nodes |-> 5, dry_run |-> FALSE]),
      Policy("powersave", POWER_SAVE, 10, [cpu_threshold |-> 20], <<>>),
      Policy("performance", PERFORMANCE, 5, <<>>, [dry_run |-> FALSE]) }

NodeValues == {10, 90, NotANumber}
ClusterValues == {5, 21, NotANumber}

\* what an agent of the fleet answers: every POST gets a 200, a tool error or a result
Answers(tool_name) ==
    {Ok200([error |-> [message |-> "tool failed"]])}
    \cup CASE tool_name = "get_cluster_metrics" ->
                {Ok200([result |-> [ready_nodes |-> n]]) : n \in ClusterValues}
           [] tool_name = "system_info" ->
                {Ok200([result |-> [cpu_percent |-> c]]) : c \in NodeValues}
           [] OTHER -> {Ok200([result |-> p]) : p \in Payloads(tool_name) \cup {ScalarResult}}

InitCycle ==
    /\ probes = [k \in 1..Len(Fleet) |->
                    [probe_id |-> Fleet[k].id, probe_type |-> Fleet[k].type,
                     endpoint |-> Endpoint, hostname |-> Fleet[k].hostname,
                     healthy |-> TRUE, last_heartbeat |-> 0]]
    /\ routing_table = [h \in {Fleet[k].hostname : k \in 1..Len(Fleet)} |->
                           Fleet[CHOOSE k \in 1..Len(Fleet) : Fleet[k].hostname = h].id]
    /\ calls = [s \in Slots |-> IdleCall]
    /\ now = 0
    /\ policies = NoPolicies
    /\ history = <<>>
    /\ cycle_count = 0
    /\ cache = NoCache
    /\ run = IdleRun
    /\ tasks = [t \in Tasks |-> IdleTask]

NextCycle ==
    \/ \E q \in PolicyPool : add_policy(q)
    \/ \E q \in PolicyPool : remove_policy(q.name)
    \/ \E q \in PolicyPool, e \in BOOLEAN : enable_policy(q.name, e)
    \/ \E d \in BOOLEAN : cycle_count < MaxCycles /\ run_optimization_cycle(d)
    \/ collected_before
    \/ action_done
    \/ after_pause
    \/ collected_after
    \/ \E s \in FanSlots : \E r \in Answers(calls[s].tool_name) : call_tool_response(s, r)
    \/ \E id \in Keys(probes), h \in BOOLEAN : Manageable /\ update_health(id, h)
    \/ \E id \in Keys(probes) : unregister_probe(id)
    \/ TimerTick
    \/ Stall

SpecCycle == InitCycle /\ [][NextCycle]_vars

-----------------------------------------------------------------------------
(* The fan-out operations over a fleet registered at startup, one caller at a  *)
(* time: broadcast and collect_node_metrics, with the registry changing under  *)
(* them.                                                                       *)

\* the host-level agent is registered before the per-node agent
FanFleet ==
    << [id |-> "host1", type |-> HOST_SYSTEM, hostname |-> "host-1"],
       [id |-> "vm1", type |-> VM_SYSTEM, hostname |-> "worker-1"] >>

\* the registry after register_probe of each agent of a fleet at time 0
Registered(fleet) ==
    [k \in 1..Len(fleet) |->
        [probe_id |-> fleet[k].id, probe_type |-> fleet[k].type, endpoint |-> Endpoint,
         hostname |-> fleet[k].hostname, healthy |-> TRUE, last_heartbeat |-> 0]]

Aliases(fleet) ==
    [h \in {fleet[k].hostname : k \in 1..Len(fleet)} |->
        fleet[CHOOSE k \in 1..Len(fleet) : fleet[k].hostname = h].id]

\* every POST gets a 200: a tool error or a result
FanAnswers ==
    {Ok200([error |-> [message |-> "tool failed"]])}
        \cup {Ok200([result |-> [cpu_percent |-> c]]) : c \in CpuPercents}

InitFan ==
    /\ probes = Registered(FanFleet)
    /\ routing_table = Aliases(FanFleet)
    /\ calls = [s \in Slots |-> IdleCall]
    /\ now = 0
    /\ policies = NoPolicies
    /\ history = <<>>
    /\ cycle_count = 0
    /\ cache = NoCache
    /\ run = IdleRun
    /\ tasks = [t \in Tasks |-> IdleTask]

NextFan ==
    \/ \E probe_type \in {None, Some(VM_SYSTEM)}, parallel \in BOOLEAN :
          broadcast("t1", "system_info", NoParams, probe_type, parallel)
    \/ broadcast_next("t1")
    \/ broadcast_done("t1")
    \/ \E probe_types \in {None, Some(<<HOST_SYSTEM>>)} : collect_node_metrics("t1", probe_types)
    \/ collect_node_metrics_done("t1")
    \/ task_return("t1")
    \/ \E s \in FanSlots : \E r \in FanAnswers : call_tool_response(s, r)
    \/ \E id \in Keys(probes), h \in BOOLEAN : update_health(id, h)
    \/ \E id \in Keys(probes) : unregister_probe(id)
    \/ \E d \in {StaleTimeout, StaleTimeout + 1} : Elapse(d)

SpecFan == InitFan /\ [][NextFan]_vars

-----------------------------------------------------------------------------
(* The snapshot cache under two callers of collect_all, with time passing.     *)

CacheAnswers == {Ok200([result |-> [cpu_percent |-> c]]) : c \in {10, NotANumber}}

InitCache == InitFan

NextCache ==
    \/ \E t \in Tasks, force_refresh \in BOOLEAN : collect_all(t, force_refresh)
    \/ \E t \in Tasks : collect_all_done(t)
    \/ \E t \in Tasks : task_return(t)
    \/ \E s \in FanSlots \cup MoreSlots : \E r \in CacheAnswers : call_tool_response(s, r)
    \/ \E d \in {cache_ttl - 1, cache_ttl} : Elapse(d)

SpecCache == InitCache /\ [][NextCache]_vars

-----------------------------------------------------------------------------
(* Claims about ProbeRouter.call_tool, checked under Spec *)

Healthy(ps, id) == id \in Keys(ps) /\ Lookup(ps, id).healthy
Unhealthy(ps, id) == id \in Keys(ps) /\ ~Lookup(ps, id).healthy
Failures(c) == {k \in 1..Len(c.seen) : c.seen[k] \in {"exception", "status"}}
ExhaustedMessage == "All " \o ToString(max_retries) \o " attempts failed"

\* C1: when a call_tool on a registered, healthy agent returns after every one of
\* its attempts failed (transport error or status other than 200), it made exactly
\* max_retries attempts, the agent (if still registered) is unhealthy at that
\* moment, and the result is a failure saying that all max_retries attempts failed.
C1_ExhaustedRetries ==
    [][\A s \in Slots :
        (/\ calls[s].pc \in {"posting", "sleeping"}
         /\ calls'[s].pc = "done"
         /\ Failures(calls'[s]) = 1..Len(calls'[s].seen))
        => (/\ calls'[s].sent = max_retries
            /\ Len(calls'[s].seen) = max_retries
            /\ calls'[s].probe_id \in Keys(probes') => Unhealthy(probes', calls'[s].probe_id)
            /\ ~calls'[s].result[1].success
            /\ calls'[s].result[1].error = Some(ExhaustedMessage)
            /\ calls'[s].result[1].error = Some("All 3 attempts failed"))]_vars

C1_Witness ==
    \E s \in Slots :
        /\ calls[s].pc = "done"
        /\ calls[s].sent = max_retries
        /\ calls[s].seen = <<"exception", "status", "exception">>
        /\ calls[s].result[1].error = Some(ExhaustedMessage)
        /\ Unhealthy(probes, calls[s].probe_id)

\* C2: a call_tool whose target resolves to an agent with health flag false returns
\* a failure in its first step: no POST is sent, and the registry (health flags and
\* last-contact times) is left as it was.
C2_UnhealthyFailsFast ==
    [][\A s \in Slots :
        (/\ calls[s].pc = "idle"
         /\ calls'[s].pc # "idle"
         /\ IsSome(get_probe(calls'[s].target))
         /\ ~get_probe(calls'[s].target)[1].healthy)
        => (/\ calls'[s].pc = "done"
            /\ calls'[s].sent = 0
            /\ ~calls'[s].result[1].success
            /\ calls'[s].result[1].probe_id = get_probe(calls'[s].target)[1].probe_id
            /\ probes' = probes)]_vars

C2_Witness ==
    \E s \in Slots :
        /\ calls[s].pc = "done"
        /\ calls[s].sent = 0
        /\ calls[s].target = "h1"
        /\ Unhealthy(probes, "n1")
        /\ Lookup(probes, "n1").last_heartbeat < now
        /\ calls[s].result[1].error = Some("Probe n1 is unhealthy")

\* C3: a call_tool on a target that is neither a registered id nor a registered
\* alias returns a failure naming the target in its first step: no POST is sent,
\* and the registry and the routing table are left as they were.
C3_UnknownTargetFails ==
    [][\A s \in Slots :
        (/\ calls[s].pc = "idle"
         /\ calls'[s].pc # "idle"
         /\ calls'[s].target \notin Keys(probes)
         /\ calls'[s].target \notin DOMAIN routing_table)
        => (/\ calls'[s].pc = "done"
            /\ calls'[s].sent = 0
            /\ ~calls'[s].result[1].success
            /\ calls'[s].result[1].probe_id = calls'[s].target
            /\ calls'[s].result[1].error =
                   Some("No probe found for target: " \o calls'[s].target)
            /\ probes' = probes
            /\ routing_table' = routing_table)]_vars

C3_Witness ==
    \E s \in Slots :
        /\ calls[s].pc = "done"
        /\ calls[s].sent = 0
        /\ calls[s].target = "ghost"
        /\ Len(probes) > 0
        /\ calls[s].result[1].error = Some("No probe found for target: ghost")

GotMcpError(c0, c1) ==
    /\ c0.pc = "posting"
    /\ Len(c1.seen) = Len(c0.seen) + 1
    /\ c1.seen[Len(c1.seen)] = "mcp_error"

\* C4 as claimed: a 200 response with an error field is one more failed attempt: the
\* router goes on to the next attempt while budget remains, and marks the agent
\* unhealthy when the last attempt ends this way.
C4_McpErrorRetried ==
    [][\A s \in Slots :
        GotMcpError(calls[s], calls'[s])
        => IF calls[s].attempt + 1 < max_retries
           THEN calls'[s].pc \in {"posting", "sleeping"}
           ELSE /\ calls'[s].pc = "done"
                /\ calls'[s].probe_id \in Keys(probes')
                   => Unhealthy(probes', calls'[s].probe_id)]_vars

\* C4 amended: a 200 response with an error field ends the call at once, with a
\* failure carrying the error's message (or the error object as text when it has
\* none); no further attempt is made and the registry is left as it was.
C4_McpErrorReturned ==
    [][\A s \in Slots :
        GotMcpError(calls[s], calls'[s])
        => (/\ calls'[s].pc = "done"
            /\ calls'[s].sent = calls[s].sent
            /\ ~calls'[s].result[1].success
            /\ calls'[s].result[1].error \in {Some("tool failed"), Some("{'code': 1}")}
            /\ "message" \in DOMAIN calls'[s].last[1].body.error
               => calls'[s].result[1].error = Some(calls'[s].last[1].body.error.message)
            /\ probes' = probes)]_vars

C4_Witness ==
    \E s \in Slots :
        /\ calls[s].pc = "done"
        /\ calls[s].seen = <<"mcp_error">>
        /\ calls[s].sent = 1
        /\ calls[s].result[1].error = Some("tool failed")
        /\ Healthy(probes, calls[s].probe_id)

\* C5 as claimed: between failed attempt k and attempt k+1 of one call_tool the
\* router sleeps k seconds, whatever the kind of failure.
C5_LinearBackoff ==
    \A s \in Slots : \A k \in 1..Len(calls[s].backoff) : calls[s].backoff[k] = k

-----------------------------------------------------------------------------
(* Claims about OptimizationController.run_optimization_cycle, checked under   *)
(* SpecCycle                                                                   *)

\* the cycle a step leaves behind: the one in progress, or the one just recorded
CycleAfter == IF run'.pc = "idle" THEN history'[Len(history')] ELSE run'.cycle

InDryRun == run.pc # "idle" /\ run.dry_run

AllDryRun(cycle) ==
    /\ \A k \in 1..Len(cycle.actions_planned) : cycle.actions_planned[k].dry_run
    /\ \A k \in 1..Len(cycle.actions_executed) : cycle.actions_executed[k].action.dry_run

\* C7: in a cycle run with dry_run=True, every planned action and the action of
\* every recorded ActionResult has dry_run true, up to and including the cycle
\* as it is recorded in the history, whatever the policy's parameter said.
C7_CycleDryRunWins == [][InDryRun => AllDryRun(CycleAfter)]_vars

\* a recorded cycle ran an action whose policy said dry_run false, with the
\* action's flag true
C7_Witness ==
    \E h \in 1..Len(history) : \E k \in 1..Len(history[h].actions_executed) :
        LET a == history[h].actions_executed[k].action
        IN /\ a.dry_run
           /\ "dry_run" \in DOMAIN a.parameters
           /\ ~a.parameters.dry_run

\* C8: in a cycle run with dry_run=True, every consolidate_workloads call that
\* is sent carries dry_run true in its arguments.
C8_ConsolidateCallDryRun ==
    InDryRun =>
        \A s \in FanSlots :
            (calls[s].tool_name = "consolidate_workloads" /\ calls[s].sent > 0)
                => calls[s].params.dry_run

Effecting ==
    {"consolidate_workloads", "set_cpu_governor", "drain_node", "set_node_schedulable"}

\* C9: in a cycle run with dry_run=True, no effecting tool call is sent to any
\* agent.
C9_DryRunSendsNothing ==
    InDryRun =>
        \A s \in FanSlots : calls[s].sent > 0 => calls[s].tool_name \notin Effecting

\* the coroutine of action i: in the first slot, started from what the action
\* dispatches to; every other slot is free
RunsAction(cycle, k) ==
    LET d == Dispatch(cycle.actions_planned[k])
    IN /\ calls[FanSeq[1]].pc # "idle"
       /\ calls[FanSeq[1]].tool_name =
             (CASE cycle.actions_planned[k].action_type = CONSOLIDATE_WORKLOADS ->
                     "consolidate_workloads"
                [] cycle.actions_planned[k].action_type = SET_GOVERNOR -> "set_cpu_governor"
                [] OTHER -> "")
       /\ calls[FanSeq[1]].params = cycle.actions_planned[k].parameters
       /\ \A s \in FanSlots \ {FanSeq[1]} : calls[s].pc = "idle"

InPlanOrder(cycle) ==
    /\ Len(cycle.actions_executed) <= Len(cycle.actions_planned)
    /\ \A k \in 1..Len(cycle.actions_executed) :
          cycle.actions_executed[k].action = cycle.actions_planned[k]

\* C10: actions run one at a time in plan order: while the call of action i is
\* out exactly the results of the actions before i are recorded and no other
\* call is out; result k is that of planned action k; and a recorded cycle
\* without a fault has one result per planned action, failed ones included.
C10_SequentialInPlanOrder ==
    /\ run.pc = "action" =>
          /\ run.i \in 1..Len(run.cycle.actions_planned)
          /\ Len(run.cycle.actions_executed) = run.i - 1
          /\ RunsAction(run.cycle, run.i)
    /\ run.pc # "idle" => InPlanOrder(run.cycle)
    /\ \A h \in 1..Len(history) :
          /\ InPlanOrder(history[h])
          /\ IsNone(history[h].error) =>
                Len(history[h].actions_executed) = Len(history[h].actions_planned)

\* a recorded cycle without a fault whose first action failed and whose second
\* action ran all the same
C10_Witness ==
    \E h \in 1..Len(history) :
        /\ IsNone(history[h].error)
        /\ Len(history[h].actions_planned) >= 2
        /\ Len(history[h].actions_executed) = Len(history[h].actions_planned)
        /\ ~history[h].actions_executed[1].success
        /\ history[h].actions_executed[2].success

EveryResultSucceeded(cycle) ==
    \A k \in 1..Len(cycle.actions_executed) : cycle.actions_executed[k].success

\* C11 as stated: every recorded cycle has success true exactly when every
\* entry of actions_executed succeeded.
C11_SuccessIffAllSucceeded ==
    \A h \in 1..Len(history) : history[h].success <=> EveryResultSucceeded(history[h])

\* C11: a recorded cycle that ended without a fault of its own (error is None)
\* has success true exactly when every entry of actions_executed succeeded, an
\* empty plan included; a cycle that recorded a fault has success false whatever
\* its actions returned.
C11_SuccessIffAllSucceededUnlessFault ==
    \A h \in 1..Len(history) :
        /\ IsNone(history[h].error) =>
              (history[h].success <=> EveryResultSucceeded(history[h]))
        /\ IsSome(history[h].error) => ~history[h].success

\* a recorded cycle without fault whose second action alone failed
C11_Witness ==
    \E h \in 1..Len(history) :
        /\ IsNone(history[h].error)
        /\ Len(history[h].actions_executed) = 2
        /\ history[h].actions_executed[1].success
        /\ ~history[h].actions_executed[2].success
        /\ ~history[h].success

\* the gather of a collect_all is complete and what follows it raises: the
\* aggregates of the snapshot, or the evaluation of a policy on the first snapshot
FaultAhead ==
    /\ run.pc = "collect"
    /\ GatherDone(run.gather)
    /\ \/ AggregatesRaise(GatherNodes(run.gather))
       \/ /\ run.phase = "before"
          /\ evaluate_policies(AggregatedMetrics(GatherCluster(run.gather),
                                                 GatherNodes(run.gather))).raises

\* the ActionResult of the except block of execute_action: failed, no result object
ActionFaulted(r) == ~r.success /\ "error" \notin DOMAIN r.result /\ IsSome(r.error)

CycleEnds == run.pc # "idle" /\ run'.pc = "idle"

Recorded(cycle) ==
    /\ history' = Append(history, cycle)
    /\ IsSome(cycle.end_time)

C13_MetricsAfterIsFresh ==
    \A h \in 1..Len(history) :
        IsSome(history[h].metrics_after) =>
            /\ history[h].metrics_after[1].timestamp > history[h].metrics_before[1].timestamp
            /\ \A k \in 1..Len(history[h].actions_executed) :
                  history[h].metrics_after[1].timestamp >
                      history[h].actions_executed[k].timestamp

-----------------------------------------------------------------------------
(* Claims about the registry of ProbeRouter, checked under Spec *)

\* C18 as stated: for every registered agent, get_probe of its id and get_probe
\* of the hostname it was registered with return the same record.
C18_IdAndAliasAgree ==
    \A i \in 1..Len(probes) :
        get_probe(probes[i].probe_id) = get_probe(probes[i].hostname)

\* the alias of p is still p's: the routing table maps it to p and it is not the
\* id of another registered agent
AliasIsOwn(p) ==
    /\ p.hostname \in DOMAIN routing_table
    /\ routing_table[p.hostname] = p.probe_id
    /\ (p.hostname \in Keys(probes) => p.hostname = p.probe_id)

\* C18: register_probe leaves the routing table mapping the hostname to the id;
\* and for every registered agent whose hostname the routing table still maps to
\* it and is not the id of another registered agent, get_probe of the id and
\* get_probe of the hostname return that agent's record.
C18_IdAndOwnAliasAgree ==
    /\ [](\A i \in 1..Len(probes) :
            AliasIsOwn(probes[i]) =>
                /\ get_probe(probes[i].probe_id) = Some(probes[i])
                /\ get_probe(probes[i].hostname) = Some(probes[i]))
    /\ [][\A d \in Descriptors :
            register_probe(d.id, d.type, Endpoint, d.hostname) =>
                /\ d.hostname \in DOMAIN routing_table'
                /\ routing_table'[d.hostname] = d.id
                /\ d.id \in Keys(probes')]_vars

\* both agents registered, the first one's alias its own, after an unregistration
\* and a new registration of the first
C18_Witness ==
    /\ Len(probes) = 2
    /\ probes[1].probe_id = "n2"
    /\ probes[2].probe_id = "n1"
    /\ AliasIsOwn(probes[2])
    /\ ~AliasIsOwn(probes[1])

AllTargets == Targets \cup Names \cup {d.hostname : d \in Descriptors}

\* C19: get_probe of the id of a registered agent returns that agent, also when
\* the routing table maps the same string to another agent; get_probe of a string
\* that is no id but a registered alias returns the agent the alias maps to; any
\* other string is not found.
C19_IdBeforeAlias ==
    \A t \in AllTargets :
        IF \E i \in 1..Len(probes) : probes[i].probe_id = t
        THEN /\ IsSome(get_probe(t))
             /\ get_probe(t)[1].probe_id = t
        ELSE IF t \in DOMAIN routing_table
        THEN /\ IsSome(get_probe(t))
             /\ get_probe(t)[1].probe_id = routing_table[t]
        ELSE IsNone(get_probe(t))

\* "n1" is the id of one registered agent and the alias of the other
C19_Witness ==
    /\ \E i \in 1..Len(probes) : probes[i].probe_id = "n1"
    /\ "n1" \in DOMAIN routing_table
    /\ routing_table["n1"] = "n2"
    /\ \E i \in 1..Len(probes) : probes[i].probe_id = "n2"
    /\ get_probe("n1")[1].hostname = "h1"
    /\ get_probe("h1")[1].probe_id = "n1"

AliasesOf(id) == {a \in DOMAIN routing_table : routing_table[a] = id}

\* what unregister_probe leaves alone: the other records, in their order, and the
\* aliases of the other agents
OthersKept(id) ==
    /\ probes' = SelectSeq(probes, LAMBDA q : q.probe_id # id)
    /\ DOMAIN routing_table' = DOMAIN routing_table \ AliasesOf(id)
    /\ \A a \in DOMAIN routing_table' : routing_table'[a] = routing_table[a]

\* C20 as stated: after unregister_probe(id) of a registered id, get_probe(id)
\* and get_probe of every alias that pointed at id are not-found, the rest is
\* unchanged; an unknown id changes nothing.
C20_UnregisteredIsNotFound ==
    [][\A id \in Names :
         unregister_probe(id) =>
            IF id \in Keys(probes)
            THEN /\ IsNone(get_probe(id)')
                 /\ \A a \in AliasesOf(id) : IsNone(get_probe(a)')
                 /\ OthersKept(id)
            ELSE UNCHANGED <<probes, routing_table>>]_vars

\* C20: unregister_probe(id) of a registered id removes the record and every
\* alias pointing at id and leaves the other records and aliases unchanged;
\* afterwards get_probe(id) and get_probe of an alias that pointed at id never
\* return the removed agent: they are not-found unless the string is also the id
\* or an alias of another registered agent, which is then returned. An unknown
\* id changes nothing.
C20_UnregisterRemovesRecordAndAliases ==
    [][\A id \in Names :
         unregister_probe(id) =>
            IF id \in Keys(probes)
            THEN /\ id \notin Keys(probes')
                 /\ \A a \in DOMAIN routing_table' : routing_table'[a] # id
                 /\ OthersKept(id)
                 /\ \A t \in {id} \cup AliasesOf(id) :
                       IF t \in Keys(probes') \/ t \in DOMAIN routing_table'
                       THEN IsSome(get_probe(t)') /\ (get_probe(t)')[1].probe_id # id
                       ELSE IsNone(get_probe(t)')
            ELSE UNCHANGED <<probes, routing_table>>]_vars

\* n1 was just unregistered with n2 still there: its record and its alias h1 are
\* gone, n2 and its alias are kept
C20_Witness ==
    /\ Keys(probes) = {"n2"}
    /\ DOMAIN routing_table = {"n1"}
    /\ routing_table["n1"] = "n2"
    /\ IsNone(get_probe("h1"))
    /\ \E s \in Slots : calls[s].probe_id = "n1" /\ calls[s].pc # "idle"

-----------------------------------------------------------------------------
(* Claims about MetricsAggregator.collect_all, checked under SpecCache *)

\* a snapshot is cached and its age is below the TTL
CacheYoung == IsSome(cache.snapshot) /\ IsSome(cache.time) /\ now - cache.time[1] < cache_ttl

\* every agent collect_all resolves has its call out in the caller's slots
FannedOut(t) ==
    /\ tasks'[t].pc = "gather"
    /\ tasks'[t].targets = NodeProbes
    /\ \A j \in 1..Len(NodeProbes) :
          /\ calls'[TaskSlots(t)[j + 1]].pc # "idle"
          /\ calls'[TaskSlots(t)[j + 1]].probe_id = NodeProbes[j].probe_id

\* C14: collect_all(force_refresh=False) with a cached snapshot younger than the
\* TTL returns that snapshot at once, no call started and the cache untouched;
\* with the cache empty or as old as the TTL or older, or with force_refresh=True,
\* it fans out, and when the collection returns the cache holds exactly the
\* snapshot returned, stamped with the time of the return, which is not older
\* than the snapshot it evicts.
C14_CacheWithinTtlElseRefresh ==
    [][/\ \A t \in Tasks, force_refresh \in BOOLEAN :
            collect_all(t, force_refresh) =>
                IF ~force_refresh /\ CacheYoung
                THEN /\ tasks'[t].pc = "done"
                     /\ tasks'[t].returned = cache.snapshot
                     /\ UNCHANGED <<calls, cache>>
                ELSE /\ FannedOut(t)
                     /\ UNCHANGED cache
       /\ \A t \in Tasks :
            (collect_all_done(t) /\ ~tasks'[t].raised) =>
                /\ tasks'[t].pc = "done"
                /\ cache'.snapshot = tasks'[t].returned
                /\ cache'.time = Some(now)
                /\ tasks'[t].returned[1].timestamp = now
                /\ Len(tasks'[t].returned[1].nodes) = Len(tasks[t].targets)
                /\ IsSome(cache.snapshot) =>
                      tasks'[t].returned[1].timestamp >= cache.snapshot[1].timestamp]_vars

\* one caller was served the snapshot cached at time 0, and after the TTL has
\* elapsed exactly another caller, without force_refresh, got a new one
C14_Witness ==
    \E t, u \in Tasks :
        /\ tasks[t].pc = "done" /\ tasks[t].cached
        /\ tasks[t].returned[1].timestamp = 0
        /\ tasks[u].pc = "done" /\ ~tasks[u].cached /\ ~tasks[u].force_refresh
        /\ ~tasks[u].raised
        /\ tasks[u].returned[1].timestamp = cache_ttl
        /\ cache.snapshot = tasks[u].returned

\* C15: callers of collect_all(force_refresh=False) never have two fan-outs in
\* flight at once: a caller arriving while another caller's refresh is running
\* does not start a second one.
C15_OneFanOutPerWindow ==
    \A t, u \in Tasks :
        (/\ t # u
         /\ tasks[t].op = "collect_all" /\ tasks[t].pc = "gather" /\ ~tasks[t].force_refresh
         /\ tasks[u].op = "collect_all" /\ tasks[u].pc = "gather")
            => tasks[u].force_refresh

-----------------------------------------------------------------------------
(* Claims about the fan-out operations, checked under SpecFan *)

OfType(probe_type) == SelectSeq(probes, LAMBDA q : q.probe_type = probe_type)

HealthyNow(ps) == SelectSeq(ps, LAMBDA q : q.healthy /\ now - q.last_heartbeat <= StaleTimeout)

\* the calls of a fan-out of t are out, one per target, each to its own target
Launched(t) ==
    \A j \in 1..Len(tasks'[t].targets) :
        /\ calls'[TaskSlots(t)[j + 1]].pc # "idle"
        /\ calls'[TaskSlots(t)[j + 1]].target = tasks'[t].targets[j].probe_id

Returns(t, op) == tasks[t].op = op /\ tasks[t].pc # "done" /\ tasks'[t].pc = "done"

\* C16: broadcast resolves its targets when it is called: the healthy, not stale
\* agents of the requested type (all types when none is given) in registry
\* order; when it returns, in parallel and in sequential mode, it returns one
\* result per target, result i being that of target i, failed calls included.
C16_BroadcastOneResultPerTarget ==
    [][/\ \A probe_type \in {None, Some(VM_SYSTEM)}, parallel \in BOOLEAN :
            broadcast("t1", "system_info", NoParams, probe_type, parallel) =>
                /\ tasks'["t1"].targets =
                      HealthyNow(IF IsSome(probe_type) THEN OfType(probe_type[1]) ELSE probes)
                /\ parallel => Launched("t1")
       /\ Returns("t1", "broadcast") =>
            /\ IsSome(tasks'["t1"].returned)
            /\ Len(tasks'["t1"].returned[1]) = Len(tasks["t1"].targets)
            /\ \A i \in 1..Len(tasks["t1"].targets) :
                  tasks'["t1"].returned[1][i].probe_id = tasks["t1"].targets[i].probe_id]_vars

\* a parallel broadcast returned two results, the first one failed
C16_Witness ==
    /\ tasks["t1"].op = "broadcast" /\ tasks["t1"].pc = "done" /\ tasks["t1"].parallel
    /\ Len(tasks["t1"].returned[1]) = 2
    /\ tasks["t1"].returned[1][1].probe_id = "host1"
    /\ ~tasks["t1"].returned[1][1].success
    /\ tasks["t1"].returned[1][2].probe_id = "vm1"
    /\ tasks["t1"].returned[1][2].success

\* C17: collect_node_metrics resolves the registered agents of the requested
\* categories, healthy or not, category by category (per-node then host-level
\* by default) and calls them all at once; it returns one record per agent in that
\* order; the record of an agent whose call failed carries its id, the error
\* string and no metric value.
C17_OneRecordPerNodeAgent ==
    [][/\ collect_node_metrics("t1", None) =>
            /\ tasks'["t1"].targets = OfType(VM_SYSTEM) \o OfType(HOST_SYSTEM)
            /\ Launched("t1")
       /\ collect_node_metrics("t1", Some(<<HOST_SYSTEM>>)) =>
            /\ tasks'["t1"].targets = OfType(HOST_SYSTEM)
            /\ Launched("t1")
       /\ Returns("t1", "collect_node_metrics") =>
            /\ IsSome(tasks'["t1"].returned)
            /\ Len(tasks'["t1"].returned[1]) = Len(tasks["t1"].targets)
            /\ \A i \in 1..Len(tasks["t1"].targets) :
                  LET n == tasks'["t1"].returned[1][i]
                      r == calls[TaskSlots("t1")[i + 1]].result[1]
                  IN /\ n.probe_id = tasks["t1"].targets[i].probe_id
                     /\ r.probe_id = n.probe_id
                     /\ IF r.success
                        THEN IsNone(n.error)
                        ELSE /\ IsSome(n.error) /\ n.error = r.error
                             /\ n.cpu_percent = 0 /\ n.memory_percent = 0
                             /\ IsNone(n.power_watts)]_vars

\* the host-level agent, registered first and marked unhealthy, comes second with
\* its error; the per-node agent comes first with its value
C17_Witness ==
    /\ tasks["t1"].op = "collect_node_metrics" /\ tasks["t1"].pc = "done"
    /\ Len(tasks["t1"].returned[1]) = 2
    /\ tasks["t1"].returned[1][1].probe_id = "vm1"
    /\ tasks["t1"].returned[1][1].cpu_percent = 90
    /\ tasks["t1"].returned[1][2].probe_id = "host1"
    /\ tasks["t1"].returned[1][2].error = Some("Probe host1 is unhealthy")

-----------------------------------------------------------------------------
(* More claims about the registry of ProbeRouter, checked under Spec and       *)
(* SpecFan                                                                      *)

\* the agent of descriptor d is registered with exactly d's arguments
RegisteredAs(d) ==
    /\ d.id \in Keys(probes)
    /\ Lookup(probes, d.id).probe_type = d.type
    /\ Lookup(probes, d.id).endpoint = Endpoint
    /\ Lookup(probes, d.id).hostname = d.hostname
    /\ d.hostname \in DOMAIN routing_table
    /\ routing_table[d.hostname] = d.id

\* C21: register_probe called again with the arguments an agent is registered
\* with leaves the registry, the agent's health flag included, and the routing
\* table as they were.
C21_RegisterIsIdempotent ==
    [][\A d \in Descriptors :
          (RegisteredAs(d) /\ register_probe(d.id, d.type, Endpoint, d.hostname))
              => UNCHANGED <<probes, routing_table>>]_vars

\* C22: list_probes keeps the agents of the requested category and, with
\* healthy_only, those of them whose health flag is true, stale or not, in
\* registration order.
C22_HealthyOnlyKeepsStaleAgents ==
    \A probe_type \in {None, Some(VM_SYSTEM), Some(HOST_SYSTEM)} :
        LET byType == IF IsSome(probe_type) THEN OfType(probe_type[1]) ELSE probes
        IN /\ list_probes(probe_type, FALSE) = byType
           /\ list_probes(probe_type, TRUE) = SelectSeq(byType, LAMBDA q : q.healthy)

-----------------------------------------------------------------------------
(* The policy list and evaluate_policies called by a client on the snapshots   *)
(* collect_all builds.                                                          *)

EvalPool ==
    PolicyPool \cup
        { Policy("consolidate-big", CONSOLIDATE, 7, [min_nodes |-> 20], [target_nodes |-> 3]) }

EvalCpu == {10, 20, 80, 90}
EvalReady == {10, 21, NotANumber}

\* what call_tool returned for each agent of the snapshot
NodeAnswers(id) ==
    {MCPCallResult(TRUE, id, "system_info", Some([cpu_percent |-> c]), None) : c \in EvalCpu}
        \cup {MCPCallResult(FALSE, id, "system_info", None,
                            Some("Probe " \o id \o " is unhealthy"))}

ClusterAnswers ==
    {MCPCallResult(TRUE, "k8s", "get_cluster_metrics", Some([ready_nodes |-> n]), None) :
        n \in EvalReady}
        \cup {MCPCallResult(FALSE, "k8s", "get_cluster_metrics", None,
                            Some("Probe k8s is unhealthy"))}

\* aggregator.py lines 219-224: the snapshots over no node agent and over the
\* per-node agent and the host-level agent, in the order collect_node_metrics asks
Snapshots ==
    {AggregatedMetrics(ClusterOf(c), nodes) :
        c \in ClusterAnswers,
        nodes \in {<<>>} \cup
            {<<NodeMetrics(Registered(FanFleet)[2], a), NodeMetrics(Registered(FanFleet)[1], b)>> :
                a \in NodeAnswers("vm1"), b \in NodeAnswers("host1")}}

\* controller.py lines 131-156: a client awaits evaluate_policies(metrics); the
\* method has no suspension point that lets another coroutine run
evaluate(t, metrics) ==
    /\ tasks[t].pc = "idle"
    /\ LET plan == evaluate_policies(metrics)
       IN tasks' = [tasks EXCEPT ![t] =
                      [IdleTask EXCEPT !.pc = "done", !.op = "evaluate_policies",
                                       !.params = metrics,
                                       !.returned = IF plan.raises THEN None
                                                    ELSE Some(plan.actions),
                                       !.raised = plan.raises]]
    /\ UNCHANGED <<probes, routing_table, calls, now, ctlVars>>

InitEval == InitFan

NextEval ==
    \/ \E q \in EvalPool : add_policy(q)
    \/ \E q \in EvalPool : remove_policy(q.name)
    \/ \E q \in EvalPool, e \in BOOLEAN : enable_policy(q.name, e)
    \/ \E metrics \in Snapshots : evaluate("t1", metrics)
    \/ task_return("t1")

SpecEval == InitEval /\ [][NextEval]_vars

-----------------------------------------------------------------------------
(* Claims about the policies, checked under SpecEval                            *)

Descending(xs) == \A i \in 1..Len(xs), j \in 1..Len(xs) : i < j => xs[i].priority >= xs[j].priority

\* C23: whatever policies were added, the policy list is in descending priority,
\* and add_policy puts the new policy behind the policies of the same or a higher
\* priority, the others keeping their order.
C23_PoliciesSortedStable ==
    /\ []Descending(policies)
    /\ [][\A q \in EvalPool : add_policy(q) =>
            \E k \in 1..Len(policies') :
                /\ policies'[k] = q
                /\ policies = [j \in 1..Len(policies) |-> policies'[IF j < k THEN j ELSE j + 1]]
                /\ \A j \in (k + 1)..Len(policies') : policies'[j].priority < q.priority]_vars

\* powersave was added before consolidate, of the same priority
C23_Witness ==
    /\ Len(policies) = 2
    /\ policies[1].name = "powersave" /\ policies[2].name = "consolidate"
    /\ policies[1].priority = policies[2].priority

\* the actions of a plan that carry the name of policy q
ActionsOf(plan, q) == SelectSeq(plan, LAMBDA a : a.policy = q.name)

\* how many enabled policies of q's name the list holds
EnabledCopies(q) ==
    Cardinality({k \in 1..Len(policies) : policies[k].name = q.name /\ policies[k].enabled})

\* this step, evaluate_policies returned its plan to caller t
Evaluated(t) ==
    /\ tasks[t].pc = "idle"
    /\ tasks'[t].pc = "done" /\ tasks'[t].op = "evaluate_policies"
    /\ ~tasks'[t].raised

\* C24: an enabled consolidate policy yields one consolidate_workloads action on
\* "cluster" with target_node_count = its target_nodes when the snapshot has
\* cluster metrics with ready_nodes > its min_nodes, and no action otherwise.
C24_ConsolidateWhenOverProvisioned ==
    [][Evaluated("t1") =>
          \A q \in {x \in EvalPool : x.policy_type = CONSOLIDATE} :
              LET mine == ActionsOf(tasks'["t1"].returned[1], q)
                  metrics == tasks'["t1"].params
                  fires == /\ IsSome(metrics.cluster)
                           /\ metrics.cluster[1].ready_nodes > q.conditions.min_nodes
              IN /\ Len(mine) = IF fires THEN EnabledCopies(q) ELSE 0
                 /\ \A i \in 1..Len(mine) :
                       /\ mine[i].action_type = CONSOLIDATE_WORKLOADS
                       /\ mine[i].target = "cluster"
                       /\ mine[i].parameters.target_node_count = q.parameters.target_nodes]_vars

\* 21 ready nodes: both consolidate policies fire, with 5 and 3 target nodes
C24_Witness ==
    /\ tasks["t1"].op = "evaluate_policies" /\ tasks["t1"].pc = "done"
    /\ IsSome(tasks["t1"].params.cluster)
    /\ tasks["t1"].params.cluster[1].ready_nodes = 21
    /\ IsSome(tasks["t1"].returned)
    /\ Len(tasks["t1"].returned[1]) = 2
    /\ tasks["t1"].returned[1][1].action_type = CONSOLIDATE_WORKLOADS
    /\ tasks["t1"].returned[1][2].action_type = CONSOLIDATE_WORKLOADS
    /\ tasks["t1"].returned[1][1].parameters.target_node_count = 5
    /\ tasks["t1"].returned[1][2].parameters.target_node_count = 3

\* C25: a power-save policy yields one set_governor(powersave) per node record
\* without error whose CPU % is below its threshold, on that node; a performance
\* policy one set_governor(performance) per node record without error whose
\* CPU % is above its threshold; a record with an error yields none.
C25_GovernorPerNode ==
    [][Evaluated("t1") =>
          \A q \in {x \in EvalPool : x.policy_type \in {POWER_SAVE, PERFORMANCE}} :
              LET mine == ActionsOf(tasks'["t1"].returned[1], q)
                  metrics == tasks'["t1"].params
                  saving == q.policy_type = POWER_SAVE
                  threshold == Get(q.conditions, "cpu_threshold", IF saving THEN 20 ELSE 80)
                  hit(n) == /\ IsNone(n.error)
                            /\ IF saving THEN n.cpu_percent < threshold
                                         ELSE n.cpu_percent > threshold
                  on(n) == {i \in 1..Len(mine) : mine[i].target = n.probe_id}
              IN /\ \A k \in 1..Len(metrics.nodes) :
                       Cardinality(on(metrics.nodes[k])) =
                           IF hit(metrics.nodes[k]) THEN EnabledCopies(q) ELSE 0
                 /\ \A i \in 1..Len(mine) :
                       /\ mine[i].action_type = SET_GOVERNOR
                       /\ mine[i].parameters.governor =
                              (IF saving THEN "powersave" ELSE "performance")
                       /\ \E k \in 1..Len(metrics.nodes) :
                              mine[i].target = metrics.nodes[k].probe_id]_vars

\* vm1 failed and host1 is at 10 %: one powersave action, on host1
C25_Witness ==
    /\ tasks["t1"].op = "evaluate_policies" /\ tasks["t1"].pc = "done"
    /\ Len(tasks["t1"].params.nodes) = 2
    /\ IsSome(tasks["t1"].params.nodes[1].error)
    /\ tasks["t1"].params.nodes[2].cpu_percent = 10
    /\ IsSome(tasks["t1"].returned)
    /\ Len(tasks["t1"].returned[1]) = 1
    /\ tasks["t1"].returned[1][1].action_type = SET_GOVERNOR
    /\ tasks["t1"].returned[1][1].target = "host1"
    /\ tasks["t1"].returned[1][1].parameters.governor = "powersave"

\* C26: evaluate_policies returns actions of enabled policies only, each with
\* the priority of its policy, in descending priority, actions of the same
\* priority in the order the policies and the nodes were evaluated.
C26_PlanSortedEnabledOnly ==
    [][Evaluated("t1") =>
          LET plan == tasks'["t1"].returned[1]
              metrics == tasks'["t1"].params
              made == EvaluateFrom(1, metrics).actions
          IN /\ \A i \in 1..Len(plan) :
                   \E k \in 1..Len(policies) :
                       /\ policies[k].enabled
                       /\ policies[k].name = plan[i].policy
                       /\ policies[k].priority = plan[i].priority
             /\ Descending(plan)
             /\ Len(plan) = Len(made)
             /\ \A q \in EvalPool :
                   SelectSeq(plan, LAMBDA a : a.priority = q.priority)
                       = SelectSeq(made, LAMBDA a : a.priority = q.priority)]_vars

\* consolidate (10) ahead of the two performance actions (5), vm1 before host1
C26_Witness ==
    /\ tasks["t1"].op = "evaluate_policies" /\ tasks["t1"].pc = "done"
    /\ IsSome(tasks["t1"].returned)
    /\ Len(tasks["t1"].returned[1]) = 3
    /\ tasks["t1"].returned[1][1].policy = "consolidate"
    /\ tasks["t1"].returned[1][1].priority = 10
    /\ tasks["t1"].returned[1][2].policy = "performance"
    /\ tasks["t1"].returned[1][2].priority = 5
    /\ tasks["t1"].returned[1][2].target = "vm1"
    /\ tasks["t1"].returned[1][3].target = "host1"

-----------------------------------------------------------------------------
(* execute_action called by a client, one action at a time, while the registry *)
(* changes.                                                                     *)

ActionPool ==
    { Action(CONSOLIDATE_WORKLOADS, "cluster", [target_node_count |-> 5, dry_run |-> FALSE],
             "manual", "manual", 1, FALSE),
      Action(SET_GOVERNOR, "vm1", [governor |-> "powersave"], "manual", "manual", 1, FALSE),
      Action(DRAIN_NODE, "worker-1", [force |-> TRUE], "manual", "manual", 1, FALSE),
      Action(DRAIN_NODE, "worker-1", [node_name |-> "worker-2"], "manual", "manual", 1, FALSE),
      Action(CORDON_NODE, "worker-1", <<>>, "manual", "manual", 1, FALSE),
      Action(UNCORDON_NODE, "worker-1", <<>>, "manual", "manual", 1, FALSE),
      Action(SET_POWER_CAP, "vm1", [watts |-> 200], "manual", "manual", 1, FALSE) }

\* controller.py lines 221-245: a client awaits execute_action(action); the method
\* runs to the call_tool of the action, or returns the result of a path without one
execute_action(t, action) ==
    /\ tasks[t].pc = "idle"
    /\ LET d == Dispatch(action)
       IN IF d.kind = "call"
          THEN LET start == CallStart(d.target, d.tool_name, d.params)
               IN /\ tasks' = [tasks EXCEPT ![t] =
                                 [IdleTask EXCEPT !.pc = "action", !.op = "execute_action",
                                                  !.params = action]]
                  /\ calls' = [calls EXCEPT ![TaskSlots(t)[1]] = start.call]
                  /\ probes' = start.probes
          ELSE /\ tasks' = [tasks EXCEPT ![t] =
                              [IdleTask EXCEPT !.pc = "done", !.op = "execute_action",
                                               !.params = action,
                                               !.returned =
                                                   Some(ResultOfError(action, d.error))]]
               /\ UNCHANGED <<calls, probes>>
    /\ UNCHANGED <<routing_table, now, ctlVars>>

\* controller.py lines 247-267: the call_tool of the action returned
execute_action_done(t) ==
    /\ tasks[t].pc = "action"
    /\ calls[TaskSlots(t)[1]].pc = "done"
    /\ tasks' = [tasks EXCEPT ![t].pc = "done",
                              ![t].returned =
                                  Some(ResultOfCall(tasks[t].params,
                                                    calls[TaskSlots(t)[1]].result[1]))]
    /\ calls' = FreeTask(t)
    /\ UNCHANGED <<probes, routing_table, now, ctlVars>>

\* what the agents answer to the call of an action: also an error object whose
\* message is null, and a result object with an error field that is null
ExecAnswers(tool_name) ==
    Answers(tool_name)
        \cup {Ok200([error |-> [message |-> JsonNull]]),
              Ok200([result |-> [status |-> "ok", error |-> JsonNull]])}

InitExec == InitCycle

NextExec ==
    \/ \E action \in ActionPool : execute_action("t1", action)
    \/ execute_action_done("t1")
    \/ task_return("t1")
    \/ \E r \in ExecAnswers(calls[FanSeq[1]].tool_name) : call_tool_response(FanSeq[1], r)
    \/ \E id \in Keys(probes), h \in BOOLEAN : update_health(id, h)
    \/ \E id \in Keys(probes) : unregister_probe(id)

SpecExec == InitExec /\ [][NextExec]_vars

-----------------------------------------------------------------------------
(* Claims about execute_action, checked under SpecExec                          *)

NoK8s == \A k \in 1..Len(probes) : probes[k].probe_type # K8S

ViaCluster == {CONSOLIDATE_WORKLOADS, DRAIN_NODE, CORDON_NODE, UNCORDON_NODE}

\* C27: execute_action returns an ActionResult and never raises; an action for
\* the cluster orchestrator while none is registered, and a set_power_cap action,
\* return success = false with an error message, and no call is started.
C27_NoPathReturnsError ==
    /\ [](tasks["t1"].op = "execute_action" /\ tasks["t1"].pc = "done"
             => ~tasks["t1"].raised /\ IsSome(tasks["t1"].returned))
    /\ [][\A action \in ActionPool :
            (/\ execute_action("t1", action)
             /\ \/ action.action_type \in ViaCluster /\ NoK8s
                \/ action.action_type = SET_POWER_CAP) =>
                /\ tasks'["t1"].pc = "done"
                /\ ~tasks'["t1"].returned[1].success
                /\ IsSome(tasks'["t1"].returned[1].error)
                /\ tasks'["t1"].returned[1].action = action
                /\ UNCHANGED <<calls, probes>>]_vars

\* a drain without a cluster orchestrator has returned its error
C27_Witness ==
    /\ NoK8s
    /\ tasks["t1"].op = "execute_action" /\ tasks["t1"].pc = "done"
    /\ tasks["t1"].params.action_type = DRAIN_NODE
    /\ ~tasks["t1"].returned[1].success
    /\ tasks["t1"].returned[1].error = Some("No K8s probe available")
    /\ calls[FanSeq[1]].pc = "idle"

\* C28: set_governor is called on the action's own target; consolidate, drain,
\* cordon and uncordon on the cluster orchestrator, drain, cordon and uncordon
\* with the action's target as node_name, cordon with schedulable false,
\* uncordon with schedulable true.
C28_RoutedByType ==
    [][\A action \in ActionPool :
          (execute_action("t1", action) /\ tasks'["t1"].pc = "action") =>
              LET call == calls'[FanSeq[1]]
                  k8s == list_probes(Some(K8S), FALSE)[1].probe_id
              IN CASE action.action_type = SET_GOVERNOR ->
                        call.target = action.target /\ call.tool_name = "set_cpu_governor"
                   [] action.action_type = CONSOLIDATE_WORKLOADS ->
                        call.target = k8s /\ call.tool_name = "consolidate_workloads"
                   [] action.action_type = DRAIN_NODE ->
                        /\ call.target = k8s /\ call.tool_name = "drain_node"
                        /\ call.params.node_name = action.target
                   [] action.action_type \in {CORDON_NODE, UNCORDON_NODE} ->
                        /\ call.target = k8s /\ call.tool_name = "set_node_schedulable"
                        /\ call.params.node_name = action.target
                        /\ call.params.schedulable = (action.action_type = UNCORDON_NODE)
                   [] OTHER -> FALSE]_vars

-----------------------------------------------------------------------------
(* Two cycles in a row over the fleet, the policies set up before the first.    *)

HistoryAnswers(tool_name) ==
    {Ok200([error |-> [message |-> "tool failed"]])}
    \cup CASE tool_name = "get_cluster_metrics" -> {Ok200([result |-> [ready_nodes |-> 21]])}
           [] tool_name = "system_info" -> {Ok200([result |-> [cpu_percent |-> 10]])}
           [] OTHER -> {Ok200([result |-> p]) : p \in Payloads(tool_name)}

InitHistory == InitCycle

NextHistory ==
    \/ \E q \in PolicyPool : add_policy(q)
    \/ \E d \in BOOLEAN : cycle_count < MaxCycles + 1 /\ run_optimization_cycle(d)
    \/ collected_before
    \/ action_done
    \/ after_pause
    \/ collected_after
    \/ \E s \in FanSlots : \E r \in HistoryAnswers(calls[s].tool_name) : call_tool_response(s, r)
    \/ TimerTick
    \/ Stall

SpecHistory == InitHistory /\ [][NextHistory]_vars

-----------------------------------------------------------------------------
(* Claims about the snapshots and the history, checked under SpecCycle and      *)
(* SpecHistory                                                                  *)

\* C29: in every snapshot collect_all built, total_probes is the number of node
\* records plus one when the cluster metrics are there, healthy_probes is the
\* number of node records without an error, and healthy_probes <= total_probes.
C29_DerivedCounts ==
    IsSome(cache.snapshot) =>
        LET m == cache.snapshot[1]
        IN /\ m.total_probes = Len(m.nodes) + (IF IsSome(m.cluster) THEN 1 ELSE 0)
           /\ m.healthy_probes = Len(SelectSeq(m.nodes, LAMBDA n : IsNone(n.error)))
           /\ m.healthy_probes <= m.total_probes

\* C30: history only grows at its end: a call of run_optimization_cycle that
\* returns appends the cycle it returns and leaves the recorded cycles as they
\* are, no other step touches history, and history has one entry per call that
\* returned.
C30_HistoryAppendOnly ==
    /\ [](Len(history) = cycle_count - (IF run.pc = "idle" THEN 0 ELSE 1))
    /\ [][IF CycleEnds
          THEN /\ history' = Append(history, history'[Len(history')])
               /\ history'[Len(history')].cycle_id = run.cycle.cycle_id
          ELSE history' = history]_vars

\* two calls returned: their cycles are in the history in call order
C30_Witness ==
    /\ Len(history) = 2
    /\ history[1].cycle_id = "cycle-1" /\ history[2].cycle_id = "cycle-2"
    /\ Len(history[1].actions_executed) > 0
    /\ run.pc = "idle"

-----------------------------------------------------------------------------
(* One client invoking tools on a registered fleet, every POST answered in the *)
(* end and every sleep over in the end.                                        *)

InitInvoke == InitFan

NextInvoke ==
    \/ \E t \in {"vm1", "host-1", "ghost"} :
          now < MaxTime /\ call_tool("direct", t, "system_info", NoParams)
    \/ \E r \in Responses(calls["direct"].tool_name) : call_tool_response("direct", r)
    \/ call_tool_wake("direct")
    \/ call_tool_return("direct")
    \/ \E id \in Keys(probes), h \in BOOLEAN : now < MaxTime /\ update_health(id, h)
    \/ TimerTick

\* httpx ends every POST by a response, a transport error or the client's
\* timeout, and the event loop ends every asyncio.sleep
SpecInvoke ==
    /\ InitInvoke /\ [][NextInvoke]_vars
    /\ WF_vars(\E r \in Responses(calls["direct"].tool_name) : call_tool_response("direct", r))
    /\ WF_vars(call_tool_wake("direct"))
    /\ WF_vars(TimerTick)

-----------------------------------------------------------------------------
(* Claims about call_tool as a whole, checked under SpecInvoke and Spec         *)

InFlight(s) == calls[s].pc \in {"posting", "sleeping"}

\* C31: an invocation of call_tool sends at most max_retries POSTs, holds one
\* MCPCallResult exactly when it has returned, and every invocation in flight
\* returns in the end, given that each POST and each sleep ends.
C31_CallToolTerminates ==
    /\ [](/\ calls["direct"].sent <= max_retries
          /\ calls["direct"].pc = "done" <=> IsSome(calls["direct"].result))
    /\ (InFlight("direct") ~> calls["direct"].pc = "done")

\* an invocation that returned after max_retries POSTs, two sleeps between them
C31_Witness ==
    /\ calls["direct"].pc = "done"
    /\ calls["direct"].sent = max_retries
    /\ Len(calls["direct"].backoff) = max_retries - 1
    /\ ~calls["direct"].result[1].success

\* C32: every MCPCallResult with success false and every ActionResult with
\* success false carries an error message.
C32_FailuresCarryReason ==
    /\ \A s \in Slots :
          (calls[s].pc = "done" /\ ~calls[s].result[1].success)
              => IsSome(calls[s].result[1].error)
    /\ (tasks["t1"].op = "execute_action" /\ tasks["t1"].pc = "done"
            /\ ~tasks["t1"].returned[1].success)
          => IsSome(tasks["t1"].returned[1].error)

-----------------------------------------------------------------------------
(* A broadcast overlapping a direct invocation on the same fleet: the agents   *)
(* answer 500 or a result.                                                      *)

OverlapSlots == DirectSlots \cup FanSlots

OverlapAnswers == {Status(500), Ok200([result |-> [cpu_percent |-> 10]])}

InitOverlap == InitFan

NextOverlap ==
    \/ \E parallel \in BOOLEAN : broadcast("t1", "system_info", NoParams, None, parallel)
    \/ broadcast_next("t1")
    \/ broadcast_done("t1")
    \/ task_return("t1")
    \/ \E t \in {"vm1", "host-1"} : call_tool("direct", t, "system_info", NoParams)
    \/ call_tool_return("direct")
    \/ \E s \in OverlapSlots, r \in OverlapAnswers : call_tool_response(s, r)

SpecOverlap == InitOverlap /\ [][NextOverlap]_vars

-----------------------------------------------------------------------------
(* Claims about the health flag under overlapping invocations, checked under    *)
(* SpecOverlap                                                                  *)

\* agent id is registered and marked unhealthy
Down(id) == id \in Keys(probes) /\ ~Lookup(probes, id).healthy

\* this step the flag of agent id goes from false to true
Recovers(id) == Down(id) /\ id \in Keys(probes') /\ Lookup(probes', id).healthy

\* this step the invocation in slot s sends a POST
Sends(s) == calls'[s].sent > calls[s].sent

\* this step is a register_probe or an update_health of agent id
SetByClient(id) ==
    \/ \E h \in BOOLEAN : update_health(id, h)
    \/ \E probe_type \in ProbeType : \E hostname \in DOMAIN routing_table' :
          register_probe(id, probe_type, Endpoint, hostname)

C34_NoAttemptWhileDown ==
    [][\A s \in OverlapSlots :
          /\ (Sends(s) /\ calls'[s].probe_id \in Keys(probes))
                => Lookup(probes, calls'[s].probe_id).healthy
          /\ (calls[s].pc = "posting" /\ calls'[s].pc = "done")
                => ~Recovers(calls[s].probe_id)]_vars

-----------------------------------------------------------------------------
(* Claims about the routing table, checked under Spec                           *)

\* C35: every alias of the routing table maps to the id of a registered agent,
\* and get_probe of an alias of the routing table finds an agent.
C35_AliasesAreRegistered ==
    \A a \in DOMAIN routing_table :
        /\ routing_table[a] \in Keys(probes)
        /\ IsSome(get_probe(a))

\* n1 was registered, called and unregistered; the alias of n2 is still there
C35_Witness ==
    /\ calls["direct"].pc = "done" /\ calls["direct"].probe_id = "n1"
    /\ calls["direct"].sent > 0
    /\ Keys(probes) = {"n2"}
    /\ DOMAIN routing_table = {"n1"}
    /\ routing_table["n1"] = "n2"

-----------------------------------------------------------------------------
(* More claims about the policies, checked under SpecEval                       *)

\* C36: after enable_policy(name, False) no policy of that name is enabled and
\* evaluate_policies plans no action of a policy of that name, however many
\* times a policy of the name was added.
C36_DisableDisablesAll ==
    [][\A q \in EvalPool : enable_policy(q.name, FALSE) =>
          /\ \A k \in 1..Len(policies') : policies'[k].name = q.name => ~policies'[k].enabled
          /\ \A metrics \in Snapshots :
                LET plan == evaluate_policies(metrics)'
                IN ~plan.raises => Len(ActionsOf(plan.actions, q)) = 0]_vars

-----------------------------------------------------------------------------
(* More claims about the snapshot cache, checked under SpecCache                *)

\* C37: the timestamp of the cached snapshot never decreases; the cache changes
\* only when a collection returns, to the snapshot returned, stamped with the
\* time of the return; and a snapshot a caller was handed stays as it was.
C37_CacheMonotoneImmutable ==
    [][/\ IsSome(cache.snapshot) =>
            /\ IsSome(cache'.snapshot)
            /\ cache'.snapshot[1].timestamp >= cache.snapshot[1].timestamp
       /\ cache' # cache =>
            /\ \E t \in Tasks : /\ tasks[t].pc = "gather" /\ tasks'[t].pc = "done"
                                /\ tasks'[t].returned = cache'.snapshot
            /\ cache'.snapshot[1].timestamp = now
            /\ cache'.time = Some(now)
       /\ \A t \in Tasks :
            (tasks[t].pc = "done" /\ tasks'[t].pc = "done")
                => tasks'[t].returned = tasks[t].returned]_vars

\* a caller still holds the snapshot of time 0, untouched, while the cache holds
\* the one a forced refresh of the other caller built later
C37_Witness ==
    \E t, u \in Tasks :
        /\ tasks[t].pc = "done" /\ IsSome(tasks[t].returned)
        /\ tasks[t].returned[1].timestamp = 0
        /\ tasks[u].pc = "done" /\ tasks[u].force_refresh /\ IsSome(tasks[u].returned)
        /\ tasks[u].returned = cache.snapshot
        /\ cache.snapshot[1].timestamp > 0

-----------------------------------------------------------------------------
(* ClosedLoopTestHarness: run_scenario drives one cycle of the controller with *)
(* the scenario's policies in place of the controller's own.                   *)

TestScenario(name, scenario_policies, expected_actions, validation_checks, dry_run) ==
    [name |-> name, policies |-> scenario_policies, expected_actions |-> expected_actions,
     validation_checks |-> validation_checks, dry_run |-> dry_run]

TestResult(scenario_name, passed, metrics_before, metrics_after, actions_taken, validation_results, error) ==
    [scenario_name |-> scenario_name, passed |-> passed, end_time |-> now,
     metrics_before |-> metrics_before, metrics_after |-> metrics_after,
     actions_taken |-> actions_taken, validation_results |-> validation_results,
     error |-> error]

\* the coroutine of run_scenario, and the slots of the gathers of its get_summary
\* pc: idle | before (awaiting the get_summary of line 94) | cycle (awaiting
\* run_optimization_cycle) | after (awaiting the get_summary of line 117) | done
HarnessTask == "t2"

\* d[k] = v on a dict
SetKey(d, k, v) == [x \in (DOMAIN d) \cup {k} |-> IF x = k THEN v ELSE d[x]]

\* lines 98-103: add_policy of each policy of the scenario onto an empty list
Installed(scenario) ==
    SortByPriority([k \in 1..Len(scenario.policies) |->
                      IF scenario.dry_run
                      THEN [scenario.policies[k] EXCEPT
                              !.parameters = SetKey(@, "dry_run", TRUE)]
                      ELSE scenario.policies[k]])

\* the keys of a summary that hold a number: total_power_watts and cluster are
\* left out of the dict when the snapshot has none (aggregator.py lines 249-258)
NumberOf(summary, metric) ==
    IF metric \in {"total_probes", "healthy_probes", "avg_cpu_percent", "avg_memory_percent"}
    THEN summary[metric]
    ELSE IF metric = "total_power_watts" /\ IsSome(summary.total_power_watts)
    THEN summary.total_power_watts[1]
    ELSE 0

\* a value of the summary that is a dict: <= and >= on it raise TypeError
IsDict(summary, metric) == metric = "cluster" /\ IsSome(summary.cluster)

\* lines 157-219
_run_validation(check, before, after, actions) ==
    LET check_type == Get(check, "type", "")
        verdict(passed) == [type |-> check_type, raises |-> FALSE, passed |-> passed]
    IN CASE check_type = "action_count" ->
                verdict(Len(actions) >= Get(check, "expected", 0))
         [] check_type = "metric_change" ->
                LET metric == Get(check, "metric", "")
                    direction == Get(check, "direction", "decrease")
                    before_val == NumberOf(before, metric)
                    after_val == NumberOf(after, metric)
                IN IF direction \in {"decrease", "increase"}
                      /\ (IsDict(before, metric) \/ IsDict(after, metric))
                   THEN [type |-> check_type, raises |-> TRUE, passed |-> FALSE]
                   ELSE IF direction = "decrease" THEN verdict(after_val <= before_val)
                   ELSE IF direction = "increase" THEN verdict(after_val >= before_val)
                   ELSE verdict(IF metric = "cluster" THEN after.cluster = before.cluster
                                ELSE after_val = before_val)
         [] check_type = "probe_health" ->
                verdict(after.healthy_probes = after.total_probes)
         [] OTHER -> verdict(FALSE)

\* lines 97-108: the controller's policies put aside, the scenario's added, the
\* cycle started and run to its first suspension
EnterCycle(t, scenario, before) ==
    /\ policies' = Installed(scenario)
    /\ cycle_count' = cycle_count + 1
    /\ run' = [IdleRun EXCEPT !.pc = "collect", !.dry_run = scenario.dry_run,
                              !.phase = "before",
                              !.cycle = OptimizationCycle("cycle-" \o ToString(cycle_count + 1)),
                              !.gather = GatherOf]
    /\ calls' = [s \in Slots |-> IF s \in MoreSlots THEN IdleCall
                                 ELSE GatherCalls(GatherOf)[s]]
    /\ tasks' = [tasks EXCEPT ![t] =
                    [IdleTask EXCEPT !.pc = "cycle", !.op = "run_scenario",
                                     !.params = [scenario |-> scenario,
                                                 original_policies |-> policies,
                                                 metrics_before |-> before,
                                                 actions_taken |-> <<>>]]]

\* lines 141-155: the except block, the finally block and the return
Errored(t, scenario, before, actions, error) ==
    tasks' = [tasks EXCEPT ![t].pc = "done", ![t].raised = FALSE,
                           ![t].returned =
                               Some(TestResult(scenario.name, FALSE, before, None,
                                               actions, <<>>, Some(error)))]

\* lines 84-94: up to the collect_all of the first get_summary
run_scenario(t, scenario) ==
    /\ tasks[t].pc = "idle"
    /\ run.pc = "idle"
    /\ IF _cache_valid
       THEN /\ EnterCycle(t, scenario, Some(Summary(cache.snapshot[1])))
            /\ UNCHANGED <<probes, routing_table, now, history, cache>>
       ELSE /\ tasks' = [tasks EXCEPT ![t] =
                           [IdleTask EXCEPT !.pc = "before", !.op = "run_scenario",
                                            !.cluster = GatherOf.cluster,
                                            !.targets = GatherOf.nodes,
                                            !.params = [scenario |-> scenario]]]
            /\ calls' = StartAll(t, GatherOf.cluster, GatherOf.nodes, "system_info", NoParams)
            /\ UNCHANGED <<probes, routing_table, now, ctlVars>>

\* the snapshot of a gather of the harness's get_summary
Gathered(t) ==
    LET cluster == IF tasks[t].cluster
                   THEN ClusterOf(calls[TaskSlots(t)[1]].result[1]) ELSE None
        nodes == [j \in 1..Len(tasks[t].targets) |->
                     NodeMetrics(tasks[t].targets[j], ResultsOf(t)[j])]
    IN [raises |-> AggregatesRaise(nodes), metrics |-> AggregatedMetrics(cluster, nodes)]

\* lines 94-108: the first get_summary returns, or raises into the except block
scenario_before(t) ==
    /\ tasks[t].pc = "before" /\ tasks[t].op = "run_scenario"
    /\ AllDone(t)
    /\ IF Gathered(t).raises
       THEN /\ Errored(t, tasks[t].params.scenario, None, <<>>, "TypeError")
            /\ calls' = FreeTask(t)
            /\ UNCHANGED <<probes, routing_table, now, ctlVars>>
       ELSE /\ cache' = [snapshot |-> Some(Gathered(t).metrics), time |-> Some(now)]
            /\ EnterCycle(t, tasks[t].params.scenario, Some(Summary(Gathered(t).metrics)))
            /\ UNCHANGED <<probes, routing_table, now, history>>

\* lines 119-148: the validation checks, the verdict and the restoring of the
\* controller's policies; a check that raises leaves the try block before line 139
Conclude(t, after) ==
    LET p == tasks[t].params
        actions == [k \in 1..Len(history[Len(history)].actions_executed) |->
                       history[Len(history)].actions_executed[k].action.action_type]
        validations == [k \in 1..Len(p.scenario.validation_checks) |->
                           _run_validation(p.scenario.validation_checks[k],
                                           p.metrics_before[1], after, actions)]
        actions_match == p.scenario.expected_actions \subseteq
                             {actions[k] : k \in 1..Len(actions)}
        validations_pass == \A k \in 1..Len(validations) : validations[k].passed
    IN IF \E k \in 1..Len(validations) : validations[k].raises
       THEN /\ Errored(t, p.scenario, p.metrics_before, actions, "TypeError")
            /\ UNCHANGED policies
       ELSE /\ tasks' = [tasks EXCEPT
                           ![t].pc = "done",
                           ![t].returned =
                               Some(TestResult(p.scenario.name,
                                               actions_match /\ validations_pass,
                                               p.metrics_before, Some(after), actions,
                                               validations, None))]
            /\ policies' = p.original_policies

\* lines 106-117: the cycle returned; the actions it took, then the second get_summary
scenario_cycle(t) ==
    /\ tasks[t].pc = "cycle" /\ tasks[t].op = "run_scenario"
    /\ run.pc = "idle"
    /\ IF _cache_valid
       THEN /\ Conclude(t, Summary(cache.snapshot[1]))
            /\ UNCHANGED calls
       ELSE /\ tasks' = [tasks EXCEPT ![t].pc = "after",
                                      ![t].cluster = GatherOf.cluster,
                                      ![t].targets = GatherOf.nodes]
            /\ calls' = StartAll(t, GatherOf.cluster, GatherOf.nodes, "system_info", NoParams)
            /\ UNCHANGED policies
    /\ UNCHANGED <<probes, routing_table, now, history, cycle_count, cache, run>>

\* lines 117-148: the second get_summary returns, or raises into the except block
scenario_after(t) ==
    /\ tasks[t].pc = "after" /\ tasks[t].op = "run_scenario"
    /\ AllDone(t)
    /\ IF Gathered(t).raises
       THEN /\ Errored(t, tasks[t].params.scenario, tasks[t].params.metrics_before,
                       [k \in 1..Len(history[Len(history)].actions_executed) |->
                           history[Len(history)].actions_executed[k].action.action_type],
                       "TypeError")
            /\ UNCHANGED <<policies, cache>>
       ELSE /\ cache' = [snapshot |-> Some(Gathered(t).metrics), time |-> Some(now)]
            /\ Conclude(t, Summary(Gathered(t).metrics))
    /\ calls' = FreeTask(t)
    /\ UNCHANGED <<probes, routing_table, now, history, cycle_count, run>>

\* get_standard_scenarios (lines 249-310), and a scenario that checks that the
\* cluster figures did not grow
Scenarios ==
    { TestScenario("consolidation_dry_run",
                   <<Policy("test_consolidate", CONSOLIDATE, 0, [min_nodes |-> 5],
                            [target_nodes |-> 5, dry_run |-> TRUE])>>,
                   {CONSOLIDATE_WORKLOADS},
                   <<[type |-> "action_count", expected |-> 1], [type |-> "probe_health"]>>,
                   TRUE),
      TestScenario("power_save_idle",
                   <<Policy("test_power_save", POWER_SAVE, 0, [cpu_threshold |-> 50],
                            [dry_run |-> TRUE])>>,
                   {SET_GOVERNOR},
                   <<[type |-> "probe_health"]>>,
                   TRUE),
      TestScenario("no_action_optimal",
                   <<Policy("test_consolidate_noop", CONSOLIDATE, 0, [min_nodes |-> 100],
                            [target_nodes |-> 5, dry_run |-> TRUE])>>,
                   {},
                   <<[type |-> "action_count", expected |-> 0], [type |-> "probe_health"]>>,
                   TRUE),
      TestScenario("cluster_not_grown",
                   <<Policy("test_consolidate", CONSOLIDATE, 0, [min_nodes |-> 5],
                            [target_nodes |-> 5, dry_run |-> TRUE])>>,
                   {},
                   <<[type |-> "metric_change", metric |-> "cluster",
                      direction |-> "decrease"]>>,
                   TRUE) }

HarnessAnswers(tool_name) ==
    {Ok200([error |-> [message |-> "tool failed"]])}
    \cup CASE tool_name = "get_cluster_metrics" -> {Ok200([result |-> [ready_nodes |-> 21]])}
           [] tool_name = "system_info" ->
                {Ok200([result |-> [cpu_percent |-> c]]) : c \in {10, NotANumber}}
           [] OTHER -> {Ok200([result |-> p]) : p \in Payloads(tool_name)}

InitHarness == InitCycle

NextHarness ==
    \/ \E q \in PolicyPool : tasks[HarnessTask].pc = "idle" /\ add_policy(q)
    \/ \E sc \in Scenarios : cycle_count < MaxCycles /\ run_scenario(HarnessTask, sc)
    \/ scenario_before(HarnessTask)
    \/ collected_before
    \/ action_done
    \/ after_pause
    \/ collected_after
    \/ scenario_cycle(HarnessTask)
    \/ scenario_after(HarnessTask)
    \/ task_return(HarnessTask)
    \/ \E s \in FanSlots \cup MoreSlots :
          \E r \in HarnessAnswers(calls[s].tool_name) : call_tool_response(s, r)
    \/ TimerTick
    \/ Stall

SpecHarness == InitHarness /\ [][NextHarness]_vars

\* a scenario of the harness ends: run_scenario returns its TestResult
Ended(t) ==
    /\ tasks[t].op = "run_scenario"
    /\ tasks[t].pc \in {"before", "cycle", "after"}
    /\ tasks'[t].pc = "done"

\* C38: when run_scenario returns, passed, failed or with an error, the
\* controller's policies are the ones it had when the scenario began.
C38_PoliciesRestored ==
    [][Ended(HarnessTask) =>
          policies' = IF tasks[HarnessTask].pc = "before" THEN policies
                      ELSE tasks[HarnessTask].params.original_policies]_vars

\* the agents a snapshot was collected from all answered: the cluster orchestrator,
\* where one is registered, and every node agent
AllAnswered(metrics) ==
    /\ Len(list_probes(Some(K8S), FALSE)) > 0 => IsSome(metrics.cluster)
    /\ \A j \in 1..Len(metrics.nodes) : IsNone(metrics.nodes[j].error)

\* C39: when a scenario ends with its checks run, its probe_health check passed
\* exactly if every agent of the post-cycle snapshot answered, the cluster
\* orchestrator and the node agents alike.
C39_ProbeHealthIffAllAnswered ==
    [][(Ended(HarnessTask) /\ IsNone(tasks'[HarnessTask].returned[1].error)) =>
          LET v == tasks'[HarnessTask].returned[1].validation_results
          IN \A k \in 1..Len(v) :
                v[k].type = "probe_health" =>
                    (v[k].passed <=> AllAnswered(cache'.snapshot[1]))]_vars

====
